---- MODULE Spec2Model ----
(***************************************************************************)
(* Reliability and validity engine of src/src/reliability_analysis.py      *)
(* (class ReliabilityAnalyzer and the module-level helpers).               *)
(*                                                                         *)
(* The dataset is a pandas DataFrame: a sequence of rows, each row a       *)
(* function from column name to a cell; a cell is <<v>> (a value) or <<>>  *)
(* (missing).  Row labels are the positions 1..Len(data).                  *)
(*                                                                         *)
(* Floating-point numbers are modelled by exact rationals [n, d] with the  *)
(* IEEE specials nan = 0/0, +inf = 1/0, -inf = -1/0.  A Pearson            *)
(* correlation r is kept as its sign and its square, [sgn, n, d] with      *)
(* r = sgn * sqrt(n/d), which is exact for integer-valued data.            *)
(***************************************************************************)
EXTENDS Integers, Sequences, FiniteSets, TLC

\* ------------------------------------------------------------------------
\* Numbers
\* ------------------------------------------------------------------------

Sign(n) == IF n > 0 THEN 1 ELSE IF n < 0 THEN -1 ELSE 0

Abs(n) == IF n < 0 THEN -n ELSE n

RECURSIVE GCD(_, _)
GCD(a, b) == IF b = 0 THEN a ELSE GCD(b, a % b)

\* The float n/d: reduced, positive denominator; d = 0 gives nan or +-inf.
Num(n, d) ==
    IF d = 0 THEN [n |-> Sign(n), d |-> 0]
    ELSE LET g == GCD(Abs(n), Abs(d))
         IN  [n |-> Sign(d) * (n \div g), d |-> Abs(d) \div g]

NaN == [n |-> 0, d |-> 0]

FromInt(i) == [n |-> i, d |-> 1]

IsNaN(a) == a.d = 0 /\ a.n = 0

IsFinite(a) == a.d > 0

RMul(a, b) == Num(a.n * b.n, a.d * b.d)

\* IEEE division: x/0 is +-inf for x # 0 and nan for x = 0 (numpy scalars,
\* warnings silenced by warnings.filterwarnings('ignore')).
RDiv(a, b) == Num(a.n * b.d, a.d * b.n)

RAdd(a, b) ==
    IF a.d = 0 /\ b.d = 0
    THEN (IF a.n = b.n THEN a ELSE NaN)
    ELSE Num(a.n * b.d + b.n * a.d, a.d * b.d)

RNeg(a) == [n |-> -a.n, d |-> a.d]

RSub(a, b) == RAdd(a, RNeg(b))

\* a >= b on floats: false whenever either side is nan.
RGeq(a, b) ==
    /\ ~IsNaN(a)
    /\ ~IsNaN(b)
    /\ IF a.d = 0 /\ b.d = 0 THEN a.n >= b.n
       ELSE IF a.d = 0 THEN a.n > 0
       ELSE IF b.d = 0 THEN b.n < 0
       ELSE a.n * b.d >= b.n * a.d

RECURSIVE SumDom(_, _)
SumDom(f, S) ==
    IF S = {} THEN 0
    ELSE LET x == CHOOSE y \in S : TRUE
         IN  f[x] + SumDom(f, S \ {x})

\* Sum of an integer-valued function (a Series, or a list) over its domain.
Sum(f) == SumDom(f, DOMAIN f)

RECURSIVE RSumDom(_, _)
RSumDom(f, S) ==
    IF S = {} THEN FromInt(0)
    ELSE LET x == CHOOSE y \in S : TRUE
         IN  RAdd(f[x], RSumDom(f, S \ {x}))

\* Sum of a float-valued function over its domain (0.0 when empty).
RSum(f) == RSumDom(f, DOMAIN f)

\* ------------------------------------------------------------------------
\* Python values: None, and an exception in flight
\* ------------------------------------------------------------------------

None == [py |-> "None"]

Raise(kind) == [py |-> "raise", exc |-> kind]

IsRaise(v) == "py" \in DOMAIN v /\ v.py = "raise"

\* bool(v) of a metric's return value: None is falsy, a non-empty dict truthy.
Truthy(v) == v # None

\* "except Exception as e: ... return None" around a metric's body.
Caught(r) == IF IsRaise(r) THEN None ELSE r

\* ------------------------------------------------------------------------
\* pandas layer
\* ------------------------------------------------------------------------

\* The column labels of the DataFrame (self.data.columns).
Columns == {"P1", "P2", "P3", "VIABILIDAD_LMS"}

Range(s) == {s[j] : j \in DOMAIN s}

HasDuplicates(items) ==
    \E j, k \in DOMAIN items : j # k /\ items[j] = items[k]

\* self.data[items] raises KeyError when a label is not a column.
MissingColumn(items) == \E j \in DOMAIN items : items[j] \notin Columns

IsMissing(cell) == Len(cell) = 0

\* Index of self.data.dropna()[items]: the rows with no missing cell in any
\* column of the dataset.
dropna_any_column(data, items) ==
    {i \in DOMAIN data : \A c \in Columns : ~IsMissing(data[i][c])}

\* Index of self.data[items].dropna(): the rows with no missing cell among
\* the selected columns (every row when no column is selected).
dropna(data, items) ==
    {i \in DOMAIN data : \A j \in DOMAIN items : ~IsMissing(data[i][items[j]])}

\* Multiplicity of a label in a list.
Count(items, c) == Cardinality({j \in DOMAIN items : items[j] = c})

\* df.sum(axis=1) for the frame self.data[items] restricted to rows I.
RowSum(data, I, items) ==
    [i \in I |-> Sum([j \in DOMAIN items |-> data[i][items[j]][1]])]

\* One column as a Series over rows I.
Column(data, I, c) == [i \in I |-> data[i][c][1]]

\* n * sum(x*y) - sum(x) * sum(y) = n * (n-1) * cov(x, y), an integer.
SS(x, y) ==
    LET I == DOMAIN x
    IN  Cardinality(I) * Sum([i \in I |-> x[i] * y[i]]) - Sum(x) * Sum(y)

\* Series.var(ddof=1): nan with fewer than two observations.
var(x) ==
    LET n == Cardinality(DOMAIN x)
    IN  IF n <= 1 THEN NaN ELSE Num(SS(x, x), n * (n - 1))

CorrNaN == [sgn |-> 0, n |-> 0, d |-> 0]

\* Series.corr (Pearson) of two Series over the same complete rows: nan with
\* fewer than two rows or a constant Series.
corr(x, y) ==
    LET n   == Cardinality(DOMAIN x)
        sxx == SS(x, x)
        syy == SS(y, y)
        sxy == SS(x, y)
    IN  IF n <= 1 \/ sxx = 0 \/ syy = 0 THEN CorrNaN
        ELSE LET q == Num(sxy * sxy, sxx * syy)
             IN  [sgn |-> Sign(sxy), n |-> q.n, d |-> q.d]

CorrIsNaN(r) == r.d = 0

\* ------------------------------------------------------------------------
\* Interpretation tables
\* ------------------------------------------------------------------------

\* The table with strict comparisons: a boundary value falls in the lower
\* band.
_interpret_cronbach_strict(alpha) ==
    IF RGeq(alpha, Num(90, 100)) /\ alpha # Num(90, 100) THEN "Elevada (Excelente)"
    ELSE IF RGeq(alpha, Num(80, 100)) /\ alpha # Num(80, 100) THEN "Muy alta (Buena)"
    ELSE IF RGeq(alpha, Num(70, 100)) /\ alpha # Num(70, 100) THEN "Alta (Aceptable)"
    ELSE IF RGeq(alpha, Num(60, 100)) /\ alpha # Num(60, 100) THEN "Moderada (Cuestionable)"
    ELSE IF RGeq(alpha, Num(50, 100)) /\ alpha # Num(50, 100) THEN "Baja (Pobre)"
    ELSE "Muy baja (Inaceptable)"

\* ReliabilityAnalyzer._interpret_cronbach
_interpret_cronbach(alpha) ==
    IF RGeq(alpha, Num(90, 100)) THEN "Elevada (Excelente)"
    ELSE IF RGeq(alpha, Num(80, 100)) THEN "Muy alta (Buena)"
    ELSE IF RGeq(alpha, Num(70, 100)) THEN "Alta (Aceptable)"
    ELSE IF RGeq(alpha, Num(60, 100)) THEN "Moderada (Cuestionable)"
    ELSE IF RGeq(alpha, Num(50, 100)) THEN "Baja (Pobre)"
    ELSE "Muy baja (Inaceptable)"

\* config.RELIABILITY_THRESHOLDS
RELIABILITY_THRESHOLDS ==
    [excellent    |-> Num(90, 100),
     good         |-> Num(80, 100),
     acceptable   |-> Num(70, 100),
     questionable |-> Num(60, 100),
     poor         |-> Num(50, 100)]

\* config.get_reliability_interpretation
get_reliability_interpretation(alpha_value) ==
    IF RGeq(alpha_value, RELIABILITY_THRESHOLDS.excellent) THEN "Excelente"
    ELSE IF RGeq(alpha_value, RELIABILITY_THRESHOLDS.good) THEN "Bueno"
    ELSE IF RGeq(alpha_value, RELIABILITY_THRESHOLDS.acceptable) THEN "Aceptable"
    ELSE IF RGeq(alpha_value, RELIABILITY_THRESHOLDS.questionable) THEN "Cuestionable"
    ELSE IF RGeq(alpha_value, RELIABILITY_THRESHOLDS.poor) THEN "Pobre"
    ELSE "Inaceptable"

\* ------------------------------------------------------------------------
\* Cronbach's Alpha
\* ------------------------------------------------------------------------

\* The Alpha formula with the variance of the total score taken with
\* ddof=0 (numpy's default) and the item variances with ddof=1.
AlphaFormula_total_ddof0(data, I, items) ==
    LET n_items        == Len(items)
        n              == Cardinality(I)
        total          == RowSum(data, I, items)
        item_variances == [j \in DOMAIN items |-> var(Column(data, I, items[j]))]
        total_variance == IF n = 0 THEN NaN ELSE Num(SS(total, total), n * n)
    IN  RMul(Num(n_items, n_items - 1),
             RSub(FromInt(1), RDiv(RSum(item_variances), total_variance)))

\* The Alpha formula with the item variances summed from the second item
\* on (an index that starts one too late).
AlphaFormula_skips_first_item(data, I, items) ==
    LET n_items        == Len(items)
        item_variances == [j \in 2..Len(items) |-> var(Column(data, I, items[j]))]
        total_variance == var(RowSum(data, I, items))
    IN  RMul(Num(n_items, n_items - 1),
             RSub(FromInt(1), RDiv(RSumDom(item_variances, 2..Len(items)), total_variance)))

\* (n / (n - 1)) * (1 - item_variances.sum() / total_variance) over rows I.
AlphaFormula(data, I, items) ==
    LET n_items        == Len(items)
        item_variances == [j \in DOMAIN items |-> var(Column(data, I, items[j]))]
        total_variance == var(RowSum(data, I, items))
    IN  RMul(Num(n_items, n_items - 1),
             RSub(FromInt(1), RDiv(RSum(item_variances), total_variance)))

\* cronbach_alpha correlating each item with the total score that still
\* contains the item.
cronbach_alpha_body_uncorrected_item_total(data, items) ==
    IF MissingColumn(items) THEN Raise("KeyError")
    ELSE LET I == dropna(data, items)
             n_items == Len(items)
         IN  IF I = {} THEN None
             ELSE IF n_items = 1 THEN Raise("ZeroDivisionError")
             ELSE IF HasDuplicates(items) THEN Raise("ValueError")
             ELSE LET total_score == RowSum(data, I, items)
                      alpha == AlphaFormula(data, I, items)
                      remaining(item) == SelectSeq(items, LAMBDA c : c # item)
                  IN  [alpha |-> alpha,
                       interpretation |-> _interpret_cronbach(alpha),
                       n_items |-> n_items,
                       n_observations |-> Cardinality(I),
                       item_total_correlations |->
                           [item \in Range(items) |->
                               corr(Column(data, I, item),
                                    total_score)],
                       alpha_if_item_deleted |->
                           [item \in {c \in Range(items) : Len(remaining(c)) > 1} |->
                               AlphaFormula(data, I, remaining(item))],
                       items |-> items,
                       mean_inter_item_correlation |->
                           [mean_of |->
                               [p \in {q \in (DOMAIN items) \X (DOMAIN items) : q[1] < q[2]} |->
                                   corr(Column(data, I, items[p[1]]),
                                        Column(data, I, items[p[2]]))]]]

\* Body of the try block of cronbach_alpha: the value returned, or the
\* exception raised inside it.
cronbach_alpha_body(data, items) ==
    IF MissingColumn(items) THEN Raise("KeyError")
    ELSE LET I == dropna(data, items)
             n_items == Len(items)
         IN  IF I = {} THEN None
             ELSE IF n_items = 1 THEN Raise("ZeroDivisionError")
             ELSE IF HasDuplicates(items) THEN Raise("ValueError")
             ELSE LET total_score == RowSum(data, I, items)
                      alpha == AlphaFormula(data, I, items)
                      remaining(item) == SelectSeq(items, LAMBDA c : c # item)
                  IN  [alpha |-> alpha,
                       interpretation |-> _interpret_cronbach(alpha),
                       n_items |-> n_items,
                       n_observations |-> Cardinality(I),
                       item_total_correlations |->
                           [item \in Range(items) |->
                               corr(Column(data, I, item),
                                    [i \in I |-> total_score[i] - data[i][item][1]])],
                       alpha_if_item_deleted |->
                           [item \in {c \in Range(items) : Len(remaining(c)) > 1} |->
                               AlphaFormula(data, I, remaining(item))],
                       items |-> items,
                       mean_inter_item_correlation |->
                           [mean_of |->
                               [p \in {q \in (DOMAIN items) \X (DOMAIN items) : q[1] < q[2]} |->
                                   corr(Column(data, I, items[p[1]]),
                                        Column(data, I, items[p[2]]))]]]

\* cronbach_alpha without its except clause: the exception escapes.
cronbach_alpha_no_except(data, items) == cronbach_alpha_body(data, items)

\* try: ... except Exception: return None
cronbach_alpha(data, items) ==
    Caught(cronbach_alpha_body(data, items))

\* ------------------------------------------------------------------------
\* Split-half reliability
\* ------------------------------------------------------------------------

\* df_items[half].sum(axis=1), df_items = self.data[items]: selecting a label
\* from a frame returns every column carrying it, so a label counts once per
\* occurrence in items for each occurrence in half.
HalfScore(data, I, items, half) ==
    [i \in I |->
        Sum([j \in DOMAIN half |-> Count(items, half[j]) * data[i][half[j]][1]])]

\* The correction with the numerator not doubled: r / (1 + r).
SpearmanBrown_numerator_not_doubled(r) ==
    IF CorrIsNaN(r) THEN [sb_of |-> r, special |-> NaN]
    ELSE IF r.sgn = -1 /\ r.n = r.d THEN [sb_of |-> r, special |-> Num(-1, 0)]
    ELSE IF r.sgn = 1 /\ r.n = r.d THEN [sb_of |-> r, special |-> Num(1, 2)]
    ELSE IF r.sgn = 0 THEN [sb_of |-> r, special |-> FromInt(0)]
    ELSE [sb_of |-> r, special |-> None]

\* (2 * r) / (1 + r) for r = sgn * sqrt(n/d): 2r/(1+r) >= t is decided
\* exactly, so the value is kept as the correlation it is computed from.
SpearmanBrown(r) ==
    IF CorrIsNaN(r) THEN [sb_of |-> r, special |-> NaN]
    ELSE IF r.sgn = -1 /\ r.n = r.d THEN [sb_of |-> r, special |-> Num(-1, 0)]
    ELSE IF r.sgn = 1 /\ r.n = r.d THEN [sb_of |-> r, special |-> FromInt(1)]
    ELSE IF r.sgn = 0 THEN [sb_of |-> r, special |-> FromInt(0)]
    ELSE [sb_of |-> r, special |-> None]

\* 2r/(1+r) >= num/den for 0 < num < den: r >= num/(2*den - num).
SBGeq(sb, num, den) ==
    IF sb.special # None THEN RGeq(sb.special, Num(num, den))
    ELSE LET r == sb.sb_of
             t == 2 * den - num
         IN  r.sgn = 1 /\ r.n * t * t >= num * num * r.d

\* self._interpret_cronbach(reliability) on a Spearman-Brown coefficient.
_interpret_split_half(sb) ==
    IF SBGeq(sb, 90, 100) THEN "Elevada (Excelente)"
    ELSE IF SBGeq(sb, 80, 100) THEN "Muy alta (Buena)"
    ELSE IF SBGeq(sb, 70, 100) THEN "Alta (Aceptable)"
    ELSE IF SBGeq(sb, 60, 100) THEN "Moderada (Cuestionable)"
    ELSE IF SBGeq(sb, 50, 100) THEN "Baja (Pobre)"
    ELSE "Muy baja (Inaceptable)"

\* split_half_reliability with the middle rounded up: the odd item goes to
\* the first half.
split_half_reliability_body_larger_first_half(data, items) ==
    IF MissingColumn(items) THEN Raise("KeyError")
    ELSE LET I           == dropna(data, items)
             mid         == (Len(items) + 1) \div 2
             first_half  == SubSeq(items, 1, mid)
             second_half == SubSeq(items, mid + 1, Len(items))
             r           == corr(HalfScore(data, I, items, first_half),
                                 HalfScore(data, I, items, second_half))
             reliability == SpearmanBrown(r)
         IN  [correlation_halves |-> r,
              spearman_brown_coefficient |-> reliability,
              first_half_items |-> first_half,
              second_half_items |-> second_half,
              n_observations |-> Cardinality(I),
              interpretation |-> _interpret_split_half(reliability)]

\* Body of the try block of split_half_reliability.
split_half_reliability_body(data, items) ==
    IF MissingColumn(items) THEN Raise("KeyError")
    ELSE LET I           == dropna(data, items)
             mid         == Len(items) \div 2
             first_half  == SubSeq(items, 1, mid)
             second_half == SubSeq(items, mid + 1, Len(items))
             r           == corr(HalfScore(data, I, items, first_half),
                                 HalfScore(data, I, items, second_half))
             reliability == SpearmanBrown(r)
         IN  [correlation_halves |-> r,
              spearman_brown_coefficient |-> reliability,
              first_half_items |-> first_half,
              second_half_items |-> second_half,
              n_observations |-> Cardinality(I),
              interpretation |-> _interpret_split_half(reliability)]

split_half_reliability(data, items) ==
    Caught(split_half_reliability_body(data, items))

\* ------------------------------------------------------------------------
\* Correlation matrices
\* ------------------------------------------------------------------------

\* SS of every pair of selected columns: n(n-1) times the covariance matrix.
SSMatrix(data, I, items) ==
    [p \in (DOMAIN items) \X (DOMAIN items) |->
        SS(Column(data, I, items[p[1]]), Column(data, I, items[p[2]]))]

\* The correlation matrix has a nan entry: fewer than two rows, or a
\* constant column.
CorrHasNaN(S, k, n) == n <= 1 \/ \E j \in 1..k : S[<<j, j>>] = 0

\* Determinant by cofactor expansion along the first selected row; rows and
\* cols are the index lists of the submatrix.
RECURSIVE Det(_, _, _)
Det(M, rows, cols) ==
    IF Len(rows) = 0 THEN 1
    ELSE LET rest == Tail(rows)
             without(j) == [t \in 1..(Len(cols) - 1) |->
                               IF t < j THEN cols[t] ELSE cols[t + 1]]
         IN  Sum([j \in DOMAIN cols |->
                    IF M[<<rows[1], cols[j]>>] = 0 THEN 0
                    ELSE (IF j % 2 = 1 THEN 1 ELSE -1)
                         * M[<<rows[1], cols[j]>>] * Det(M, rest, without(j))])

\* Fraction-free elimination on a positive semi-definite matrix: a zero
\* pivot is a zero leading minor, and then the determinant is zero.
RECURSIVE Eliminate(_, _, _, _)
Eliminate(M, t, prev, k) ==
    IF t > k THEN prev
    ELSE LET p == M[<<t, t>>]
         IN  IF p = 0 THEN 0
             ELSE Eliminate([q \in (1..k) \X (1..k) |->
                                IF q[1] > t /\ q[2] > t
                                THEN (M[q] * p - M[<<q[1], t>>] * M[<<t, q[2]>>]) \div prev
                                ELSE M[q]],
                            t + 1, p, k)

\* Determinant of the k x k matrix of SS values.
DetSS(S, k) == Eliminate(S, 1, 1, k)

RECURSIVE Product(_, _)
Product(f, S) ==
    IF S = {} THEN 1
    ELSE LET x == CHOOSE y \in S : TRUE
         IN  f[x] * Product(f, S \ {x})

\* np.linalg.det of the correlation matrix: det(SS) / prod(SS[j][j]);
\* nan when an entry is nan, 1.0 for the empty matrix.
DetCorr(S, k, n) ==
    IF k = 0 THEN FromInt(1)
    ELSE IF CorrHasNaN(S, k, n) THEN NaN
    ELSE Num(DetSS(S, k), Product([j \in 1..k |-> S[<<j, j>>]], 1..k))

\* ------------------------------------------------------------------------
\* KMO
\* ------------------------------------------------------------------------

\* ReliabilityAnalyzer._interpret_kmo
_interpret_kmo(kmo) ==
    IF RGeq(kmo, Num(90, 100)) THEN "Maravilloso"
    ELSE IF RGeq(kmo, Num(80, 100)) THEN "Meritorio"
    ELSE IF RGeq(kmo, Num(70, 100)) THEN "Mediano"
    ELSE IF RGeq(kmo, Num(60, 100)) THEN "Mediocre"
    ELSE IF RGeq(kmo, Num(50, 100)) THEN "Miserable"
    ELSE "Inaceptable"

\* Index list 1..k without position j.
Others(k, j) == [t \in 1..(k - 1) |-> IF t < j THEN t ELSE t + 1]

\* kmo_per_variable[i] for an invertible correlation matrix: the squared
\* correlations are SS[i,j]^2 / (SS[i,i] SS[j,j]); the squared partial
\* correlations are A[i,j]^2 / (A[i,i] A[j,j]) with A the cofactors of SS
\* (corr_inv is A scaled row- and column-wise, then divided by det).
KmoPerVariable(S, k, i) ==
    LET cof(a, b) == Det(S, Others(k, a), Others(k, b))
        sum_sq_corr ==
            RSum([j \in (1..k) \ {i} |->
                    Num(S[<<i, j>>] * S[<<i, j>>], S[<<i, i>>] * S[<<j, j>>])])
        sum_sq_partial ==
            RSum([j \in (1..k) \ {i} |->
                    Num(cof(i, j) * cof(i, j), cof(i, i) * cof(j, j))])
    IN  RDiv(sum_sq_corr, RAdd(sum_sq_corr, sum_sq_partial))

\* dict(zip(items, values)): a repeated key keeps its last value.
DictZip(items, values) ==
    [c \in Range(items) |->
        values[CHOOSE j \in DOMAIN items :
                   /\ items[j] = c
                   /\ \A t \in DOMAIN items : items[t] = c => t <= j]]

kmo_test_body(data, items) ==
    IF MissingColumn(items) THEN Raise("KeyError")
    ELSE LET I      == dropna(data, items)
             n      == Cardinality(I)
             n_vars == Len(items)
             S      == SSMatrix(data, I, items)
         IN  \* StandardScaler.fit_transform: no sample, or no feature
             IF n = 0 \/ n_vars = 0 THEN Raise("ValueError")
             \* np.corrcoef of one variable is 0-dimensional: inv rejects it
             ELSE IF n_vars = 1 THEN Raise("LinAlgError")
             ELSE IF ~CorrHasNaN(S, n_vars, n) /\ DetSS(S, n_vars) = 0
                  THEN Raise("LinAlgError")
             ELSE LET kmo_per_variable ==
                          [i \in 1..n_vars |->
                              IF CorrHasNaN(S, n_vars, n) THEN NaN
                              ELSE KmoPerVariable(S, n_vars, i)]
                      kmo_global == RDiv(RSum(kmo_per_variable), FromInt(n_vars))
                  IN  [kmo_global |-> kmo_global,
                       interpretation |-> _interpret_kmo(kmo_global),
                       kmo_per_variable |-> DictZip(items, kmo_per_variable),
                       n_variables |-> n_vars,
                       n_observations |-> n]

kmo_test(data, items) ==
    Caught(kmo_test_body(data, items))

\* ------------------------------------------------------------------------
\* Bartlett's sphericity test
\* ------------------------------------------------------------------------

\* -((n - 1) - (2 * p + 5) / 6) * np.log(det_corr).  The logarithm of a
\* determinant strictly between 0 and 1 is kept as the pair (factor, det).
ChiSquare(n, p, det_corr) ==
    LET factor == RSub(FromInt(n - 1), Num(2 * p + 5, 6))
    IN  IF IsNaN(det_corr) THEN NaN
        ELSE IF det_corr = FromInt(1) THEN FromInt(0)
        ELSE IF det_corr = FromInt(0) THEN RMul(factor, Num(1, 0))
        ELSE [minus |-> factor, times_log |-> det_corr]

\* The determinants below which 1 - stats.chi2.cdf(chi_square, df) < 0.05,
\* in hundred-thousandths, rounded down: exp(-c / factor) for c the 0.95
\* quantile of chi-square with df = p(p-1)/2 (3.84146 for p = 2, 7.81473
\* for p = 3), by p and by n = 3..7.  A regular correlation matrix of the
\* tables needs p <= 3 items and n > p rows.
DetCrit05 ==
    [p \in {2, 3} |->
        IF p = 2 THEN [n \in 3..7 |-> <<46, 7722, 21511, 33368, 42585>>[n - 2]]
        ELSE [n \in 3..7 |-> <<0, 123, 2713, 8477, 15327>>[n - 2]]]

\* chi_square is the product kept by ChiSquare, not a float.
IsLogProduct(chi_square) == "times_log" \in DOMAIN chi_square

\* The decision written as "not p_value >= 0.05": a nan p-value counts as
\* below the level.
BartlettPValueBelow05_not_geq(chi_square, n, p) ==
    IF p < 2 \/ chi_square = NaN THEN TRUE
    ELSE IF IsLogProduct(chi_square)
    THEN /\ chi_square.minus.n > 0
         /\ chi_square.times_log.n * 100000
                <= DetCrit05[p][n] * chi_square.times_log.d
    ELSE chi_square = Num(1, 0)

\* p_value < 0.05.  chi2.cdf is nan for df = 0 or a nan statistic, 0 for a
\* statistic <= 0 and 1 for +inf; for -factor * ln(det) with 0 < det < 1
\* and factor > 0 the statistic exceeds the quantile when det is below
\* exp(-c / factor).
BartlettPValueBelow05(chi_square, n, p) ==
    IF p < 2 THEN FALSE
    ELSE IF IsLogProduct(chi_square)
    THEN /\ chi_square.minus.n > 0
         /\ chi_square.times_log.n * 100000
                <= DetCrit05[p][n] * chi_square.times_log.d
    ELSE chi_square = Num(1, 0)

\* 1 - stats.chi2.cdf(chi_square, df): the float where it is nan, 0 or 1,
\* else the upper tail of the statistic it is computed from.
BartlettPValue(chi_square, df) ==
    IF df = 0 \/ chi_square = NaN THEN NaN
    ELSE IF chi_square = Num(1, 0) THEN FromInt(0)
    ELSE IF IsLogProduct(chi_square) /\ chi_square.minus.n > 0
    THEN [chi2_upper_tail_of |-> chi_square, df |-> df]
    ELSE FromInt(1)

\* Body of the try block of bartlett_test.
bartlett_test_body(data, items) ==
    IF MissingColumn(items) THEN Raise("KeyError")
    ELSE LET I          == dropna(data, items)
             n          == Cardinality(I)
             p          == Len(items)
             det_corr   == DetCorr(SSMatrix(data, I, items), p, n)
             chi_square == ChiSquare(n, p, det_corr)
             suitable   == BartlettPValueBelow05(chi_square, n, p)
         IN  [chi_square |-> chi_square,
              degrees_of_freedom |-> (p * (p - 1)) \div 2,
              p_value |-> BartlettPValue(chi_square, (p * (p - 1)) \div 2),
              interpretation |->
                  IF suitable
                  THEN "Rechazar H0: Las variables están correlacionadas (apropiado para análisis factorial)"
                  ELSE "No rechazar H0: Las variables NO están suficientemente correlacionadas",
              suitable_for_factor_analysis |-> suitable,
              n_variables |-> p,
              n_observations |-> n]

bartlett_test(data, items) ==
    Caught(bartlett_test_body(data, items))

\* ------------------------------------------------------------------------
\* Content validity index
\* ------------------------------------------------------------------------

\* judges_ratings.loc[item] >= relevant_threshold, relevant_threshold = 3
IsRelevant(rating) == rating >= 3

\* The matrices, as <<n_judges, relevant ratings per item>>, whose exact
\* mean is one of the thresholds 0.60, 0.70, 0.80 while np.mean, adding the
\* floats n_relevant / n_judges from left to right and dividing the sum by
\* the number of items, returns the float just below it: with five judges,
\* (0.6 + 0.8 + 1.0) / 3 = 0.7999999999999999.  Up to 6 judges and 4 items
\* there are no others.
MeanRoundedBelow ==
    { <<5, <<2, 5, 5>>>>, <<5, <<3, 4, 5>>>>, <<5, <<4, 3, 5>>>>, <<5, <<4, 5, 3>>>>,
      <<5, <<5, 2, 5>>>>, <<5, <<5, 4, 3>>>>, <<5, <<5, 5, 2>>>>,
      <<5, <<4, 5, 5, 2>>>>, <<5, <<5, 4, 5, 2>>>>, <<5, <<5, 5, 4, 2>>>> }

\* ivc_total >= num/den for the float ivc_total, num/den one of the
\* thresholds: a mean that is exactly the threshold reaches it unless the
\* float was rounded below it.
MeanGeq(ivc_total, num, den) ==
    IF IsNaN(ivc_total.mean) THEN FALSE
    ELSE IF ivc_total.mean = Num(num, den) THEN ~ivc_total.rounded_below
    ELSE RGeq(ivc_total.mean, Num(num, den))

\* Body of the try block of content_validity_index.  judges_ratings is the
\* list of the items' rows, each the list of the n_judges judges' ratings.
content_validity_index_body(judges_ratings, n_judges) ==
    LET n_items    == Len(judges_ratings)
        n_relevant == [item \in DOMAIN judges_ratings |->
                          Cardinality({j \in 1..n_judges :
                                           IsRelevant(judges_ratings[item][j])})]
        ivc_items  == [item \in DOMAIN judges_ratings |->
                          Num(n_relevant[item], n_judges)]
        ivc_total  == [mean |-> RDiv(RSum(ivc_items), FromInt(n_items)),
                       rounded_below |-> <<n_judges, n_relevant>> \in MeanRoundedBelow]
    IN  [ivc_total |-> ivc_total,
         ivc_by_item |-> ivc_items,
         n_judges |-> n_judges,
         n_items |-> n_items,
         interpretation |->
             IF MeanGeq(ivc_total, 80, 100) THEN "Excelente validez de contenido"
             ELSE IF MeanGeq(ivc_total, 70, 100) THEN "Buena validez de contenido"
             ELSE IF MeanGeq(ivc_total, 60, 100) THEN "Validez de contenido aceptable"
             ELSE "Validez de contenido insuficiente - revisar ítems"]

content_validity_index(judges_ratings, n_judges) ==
    Caught(content_validity_index_body(judges_ratings, n_judges))

\* ------------------------------------------------------------------------
\* Construct validity (exploratory factor analysis)
\* ------------------------------------------------------------------------

\* The members of a set of integers in increasing order.
SortedSeq(T) ==
    [t \in 1..Cardinality(T) |->
        CHOOSE x \in T : Cardinality({y \in T : y < x}) = t - 1]

\* Coefficient of lambda^(k-m) in det(lambda*I - (R - I)), R the correlation
\* matrix, multiplied by the positive number prod(SS[j][j]): the principal
\* minors of R - I are those of SS with a zero diagonal, divided by the
\* SS[j][j] of their rows.
CharCoeff(S, k, m) ==
    LET Z == [q \in (1..k) \X (1..k) |-> IF q[1] = q[2] THEN 0 ELSE S[q]]
        minors == [T \in {U \in SUBSET (1..k) : Cardinality(U) = m} |->
                      Det(Z, SortedSeq(T), SortedSeq(T))
                      * Product([j \in 1..k |-> S[<<j, j>>]], (1..k) \ T)]
    IN  (IF m % 2 = 0 THEN 1 ELSE -1) * Sum(minors)

\* np.sum(eigenvalues > 1): the eigenvalues of R are real, so the number of
\* eigenvalues of R - I above zero is the number of sign changes in the
\* coefficients of its characteristic polynomial (Descartes).
EigenvaluesAboveOne(S, k) ==
    LET signs   == [m \in 0..k |-> Sign(CharCoeff(S, k, m))]
        nonzero == {m \in 0..k : signs[m] # 0}
        next(m) == CHOOSE x \in nonzero :
                       x > m /\ \A y \in nonzero : y > m => x <= y
    IN  Cardinality({m \in nonzero :
            /\ \E x \in nonzero : x > m
            /\ signs[next(m)] # signs[m]})

\* FactorAnalysis(n_components, random_state).fit(data_scaled): the fitted
\* estimator is a function of the scaled data, the number of components and
\* the seed of the randomized SVD, and of nothing else.
FactorAnalysisFit(I, items, n_components, seed) ==
    [estimator |-> "FactorAnalysis", rows |-> I, features |-> items,
     n_components |-> n_components, random_state |-> seed]

\* n_factors is <<>> for None (automatic) and <<m>> for an explicit count.
construct_validity_factorial_body(data, items, n_factors, seed) ==
    IF MissingColumn(items) THEN Raise("KeyError")
    ELSE LET I == dropna(data, items)
             n == Cardinality(I)
             k == Len(items)
             S == SSMatrix(data, I, items)
         IN  \* StandardScaler.fit_transform: no sample, or no feature
             IF n = 0 \/ k = 0 THEN Raise("ValueError")
             \* np.linalg.eigvals: 0-dimensional input, or nan entries
             ELSE IF n_factors = <<>> /\ (k = 1 \/ CorrHasNaN(S, k, n))
                  THEN Raise("LinAlgError")
             ELSE LET m   == IF n_factors = <<>> THEN EigenvaluesAboveOne(S, k)
                             ELSE n_factors[1]
                      fit == FactorAnalysisFit(I, items, m, seed)
                  IN  [n_factors |-> m,
                       factor_loadings |->
                           [index |-> items, columns |-> m, values |-> fit],
                       explained_variance_ratio |-> [ratio_of |-> fit],
                       total_variance_explained |-> [sum_ratio_of |-> fit],
                       \* "eigenvalues if n_factors is None else None":
                       \* n_factors has been assigned by now
                       eigenvalues |-> None]

construct_validity_factorial(data, items, n_factors, seed) ==
    Caught(construct_validity_factorial_body(data, items, n_factors, seed))

\* ------------------------------------------------------------------------
\* Convergent validity
\* ------------------------------------------------------------------------

\* floor(sqrt(v)) for 0 <= v <= 10000.
ISqrt(v) == CHOOSE s \in 0..100 : s * s <= v /\ v < (s + 1) * (s + 1)

\* A correlation in hundredths, truncated toward zero.
Hundredths(r) == r.sgn * ISqrt((r.n * 10000) \div r.d)

\* a <= b on correlations (neither nan).
CorrLeq(a, b) ==
    IF a.sgn < 0 /\ b.sgn < 0 THEN a.n * b.d >= b.n * a.d
    ELSE IF a.sgn > 0 /\ b.sgn > 0 THEN a.n * b.d <= b.n * a.d
    ELSE a.sgn <= b.sgn

convergent_validity_body(data, items_dimension) ==
    IF MissingColumn(items_dimension) THEN Raise("KeyError")
    ELSE LET I       == dropna(data, items_dimension)
             n_items == Len(items_dimension)
             col(j)  == Column(data, I, items_dimension[j])
             corr_matrix ==
                 [q \in (1..n_items) \X (1..n_items) |-> corr(col(q[1]), col(q[2]))]
             pairs   == {q \in (1..n_items) \X (1..n_items) : q[1] < q[2]}
             correlations == [q \in pairs |-> corr_matrix[q]]
             anynan  == \E q \in pairs : CorrIsNaN(correlations[q])
             total   == Sum([q \in pairs |-> Hundredths(correlations[q])])
             count   == Cardinality(pairs)
         IN  \* np.min of an empty list
             IF pairs = {} THEN Raise("ValueError")
             ELSE [mean_correlation |->
                       IF anynan THEN [mean_of |-> correlations, hundredths |-> NaN]
                       ELSE [mean_of |-> correlations, hundredths |-> Num(total, count)],
                   min_correlation |->
                       IF anynan THEN CorrNaN
                       ELSE correlations[CHOOSE q \in pairs : \A t \in pairs :
                                CorrLeq(correlations[q], correlations[t])],
                   max_correlation |->
                       IF anynan THEN CorrNaN
                       ELSE correlations[CHOOSE q \in pairs : \A t \in pairs :
                                CorrLeq(correlations[t], correlations[q])],
                   correlation_matrix |-> corr_matrix,
                   n_correlations |-> count,
                   interpretation |->
                       IF ~anynan /\ total >= 50 * count THEN "Excelente validez convergente"
                       ELSE IF ~anynan /\ total >= 30 * count THEN "Buena validez convergente"
                       ELSE IF ~anynan /\ total >= 20 * count THEN "Validez convergente aceptable"
                       ELSE "Validez convergente insuficiente"]

convergent_validity(data, items_dimension) ==
    Caught(convergent_validity_body(data, items_dimension))

\* ------------------------------------------------------------------------
\* Discriminant validity
\* ------------------------------------------------------------------------

\* "abs(r) <= num/den": a correlation on the threshold counts as below it.
CorrAbsLess_or_equal(r, num, den) == ~CorrIsNaN(r) /\ r.n * den * den <= num * num * r.d

\* abs(r) < num/den; false for nan.
CorrAbsLess(r, num, den) == ~CorrIsNaN(r) /\ r.n * den * den < num * num * r.d

\* The if/elif chain on abs(corr_between) in discriminant_validity.
discriminant_interpretation(corr_between) ==
    IF CorrAbsLess(corr_between, 30, 100)
    THEN "Excelente validez discriminante"
    ELSE IF CorrAbsLess(corr_between, 50, 100)
    THEN "Buena validez discriminante"
    ELSE IF CorrAbsLess(corr_between, 70, 100)
    THEN "Validez discriminante moderada"
    ELSE "Validez discriminante insuficiente (dimensiones muy relacionadas)"

\* "len(df_dim1)": the rows complete in the first list are counted.
discriminant_validity_body_counts_first_list(data, dimension1_items, dimension2_items) ==
    IF MissingColumn(dimension1_items) \/ MissingColumn(dimension2_items)
    THEN Raise("KeyError")
    ELSE LET common_idx == dropna(data, dimension1_items)
                           \cap dropna(data, dimension2_items)
             score_dim1 == RowSum(data, common_idx, dimension1_items)
             score_dim2 == RowSum(data, common_idx, dimension2_items)
             corr_between == corr(score_dim1, score_dim2)
         IN  [correlation_between_dimensions |-> corr_between,
              dimension1_items |-> dimension1_items,
              dimension2_items |-> dimension2_items,
              n_observations |-> Cardinality(dropna(data, dimension1_items)),
              interpretation |-> discriminant_interpretation(corr_between)]

discriminant_validity_body(data, dimension1_items, dimension2_items) ==
    IF MissingColumn(dimension1_items) \/ MissingColumn(dimension2_items)
    THEN Raise("KeyError")
    ELSE LET common_idx == dropna(data, dimension1_items)
                           \cap dropna(data, dimension2_items)
             score_dim1 == RowSum(data, common_idx, dimension1_items)
             score_dim2 == RowSum(data, common_idx, dimension2_items)
             corr_between == corr(score_dim1, score_dim2)
         IN  [correlation_between_dimensions |-> corr_between,
              dimension1_items |-> dimension1_items,
              dimension2_items |-> dimension2_items,
              n_observations |-> Cardinality(common_idx),
              interpretation |-> discriminant_interpretation(corr_between)]

discriminant_validity(data, dimension1_items, dimension2_items) ==
    Caught(discriminant_validity_body(data, dimension1_items, dimension2_items))

\* ------------------------------------------------------------------------
\* Criterion validity
\* ------------------------------------------------------------------------

\* Squared two-sided critical values of Student's t, in hundredths, by
\* degrees of freedom 1..8 (stats.t.cdf).
TCritSq05 == <<16145, 1852, 1013, 771, 661, 599, 559, 532>>

TCritSq01 == <<405221, 9851, 3412, 2120, 1626, 1374, 1224, 1126>>

\* p_value < level for t_stat = r * sqrt((n - 2) / (1 - r^2)) and n - 2
\* degrees of freedom: t^2 above the squared critical value.  r = +-1 with
\* n > 2 gives t = +-inf and p = 0; n = 2 gives nan.
PValueBelow(r, n, table) ==
    /\ ~CorrIsNaN(r)
    /\ n > 2
    /\ \/ r.n = r.d
       \/ LET df == IF n - 2 > Len(table) THEN Len(table) ELSE n - 2
          IN  r.n * (n - 2) * 100 > table[df] * (r.d - r.n)

\* "p_value < 0.05" in the first branch: the excellent label at the 5% level.
criterion_interpretation_excellent_at_05(corr_criterion, below05, below01) ==
    IF ~CorrAbsLess(corr_criterion, 50, 100) /\ ~CorrIsNaN(corr_criterion) /\ below05
    THEN "Excelente validez de criterio"
    ELSE IF ~CorrAbsLess(corr_criterion, 30, 100) /\ ~CorrIsNaN(corr_criterion) /\ below05
    THEN "Buena validez de criterio"
    ELSE IF below05 THEN "Validez de criterio aceptable"
    ELSE "Validez de criterio insuficiente (no significativa)"

\* The if/elif chain on abs(corr_criterion) and p_value in
\* criterion_validity; below05 and below01 stand for p_value < 0.05 and
\* p_value < 0.01.
criterion_interpretation(corr_criterion, below05, below01) ==
    IF ~CorrAbsLess(corr_criterion, 50, 100) /\ ~CorrIsNaN(corr_criterion) /\ below01
    THEN "Excelente validez de criterio"
    ELSE IF ~CorrAbsLess(corr_criterion, 30, 100) /\ ~CorrIsNaN(corr_criterion) /\ below05
    THEN "Buena validez de criterio"
    ELSE IF below05 THEN "Validez de criterio aceptable"
    ELSE "Validez de criterio insuficiente (no significativa)"

criterion_validity_body(data, predictor_items, criterion_var) ==
    IF MissingColumn(predictor_items) \/ criterion_var \notin Columns
    THEN Raise("KeyError")
    ELSE LET common_idx == dropna(data, predictor_items)
                           \cap dropna(data, <<criterion_var>>)
             score_predictor == RowSum(data, common_idx, predictor_items)
             criterion == Column(data, common_idx, criterion_var)
             corr_criterion == corr(score_predictor, criterion)
             n == Cardinality(common_idx)
             below05 == PValueBelow(corr_criterion, n, TCritSq05)
             below01 == PValueBelow(corr_criterion, n, TCritSq01)
         IN  [correlation_with_criterion |-> corr_criterion,
              p_value |-> [two_sided_t |-> corr_criterion, df |-> n - 2],
              significant |-> below05,
              criterion_variable |-> criterion_var,
              n_observations |-> n,
              interpretation |-> criterion_interpretation(corr_criterion, below05, below01)]

criterion_validity(data, predictor_items, criterion_var) ==
    Caught(criterion_validity_body(data, predictor_items, criterion_var))

\* ------------------------------------------------------------------------
\* Composition: comprehensive_reliability_validity
\* ------------------------------------------------------------------------

\* A dict built from (key, value) pairs with distinct keys.
Dict(pairs) ==
    [key \in {q[1] : q \in pairs} |-> (CHOOSE q \in pairs : q[1] = key)[2]]

\* "if result: d[key] = result": the pair stored, if any.
Entry(key, result) == IF Truthy(result) THEN {<<key, result>>} ELSE {}

\* dimensions is the mapping in iteration order: a sequence of
\* [name, items] with distinct names.
DimNamesOf(dimensions) == {dimensions[j].name : j \in DOMAIN dimensions}

ItemsOf(dimensions, name) ==
    dimensions[CHOOSE j \in DOMAIN dimensions : dimensions[j].name = name].items

\* dim_results filled the way results['general'] is: every metric stored as
\* returned, None included.
DimResults_store_unconditionally(data, items) ==
    Dict({<<"cronbach_alpha", cronbach_alpha(data, items)>>,
          <<"split_half", split_half_reliability(data, items)>>}
         \cup (IF Len(items) >= 3 THEN {<<"kmo", kmo_test(data, items)>>} ELSE {})
         \cup (IF Len(items) >= 3 THEN {<<"bartlett", bartlett_test(data, items)>>} ELSE {}))

\* dim_results of one pass of the per-dimension loop.
DimResults(data, items) ==
    Dict(Entry("cronbach_alpha", cronbach_alpha(data, items))
         \cup Entry("split_half", split_half_reliability(data, items))
         \cup (IF Len(items) >= 3 THEN Entry("kmo", kmo_test(data, items)) ELSE {})
         \cup (IF Len(items) >= 3 THEN Entry("bartlett", bartlett_test(data, items))
              ELSE {}))

\* results['by_dimension'] after the loop over dimensions.items().
ByDimension(data, dimensions) ==
    [name \in DimNamesOf(dimensions) |-> DimResults(data, ItemsOf(dimensions, name))]

\* [item for items in dimensions.values() for item in items]
RECURSIVE AllItems(_)
AllItems(dimensions) ==
    IF Len(dimensions) = 0 THEN <<>>
    ELSE Head(dimensions).items \o AllItems(Tail(dimensions))

\* results['general']: the four metrics over all_items, stored as returned.
General(data, all_items) ==
    [cronbach_alpha |-> cronbach_alpha(data, all_items),
     split_half     |-> split_half_reliability(data, all_items),
     kmo            |-> kmo_test(data, all_items),
     bartlett       |-> bartlett_test(data, all_items)]

\* Factorial validity gated like convergent validity (2 items suffice).
FactorialEntries_two_items(data, dimensions, seed) ==
    UNION {IF Len(dimensions[j].items) >= 2
           THEN Entry(dimensions[j].name \o "_factorial",
                      construct_validity_factorial(data, dimensions[j].items, <<>>, seed))
           ELSE {}
           : j \in DOMAIN dimensions}

\* Factorial validity per dimension with at least 3 items.
FactorialEntries(data, dimensions, seed) ==
    UNION {IF Len(dimensions[j].items) >= 3
           THEN Entry(dimensions[j].name \o "_factorial",
                      construct_validity_factorial(data, dimensions[j].items, <<>>, seed))
           ELSE {}
           : j \in DOMAIN dimensions}

\* Convergent validity per dimension with at least 2 items.
ConvergentEntries(data, dimensions) ==
    UNION {IF Len(dimensions[j].items) >= 2
           THEN Entry(dimensions[j].name \o "_convergent",
                      convergent_validity(data, dimensions[j].items))
           ELSE {}
           : j \in DOMAIN dimensions}

\* Discriminant validity between dim_names[0] and dim_names[-1].
DiscriminantEntry_first_and_last(data, dimensions) ==
    IF Len(dimensions) >= 2
    THEN Entry("discriminant",
               discriminant_validity(data, dimensions[1].items,
                                     dimensions[Len(dimensions)].items))
    ELSE {}

\* Discriminant validity between dim_names[0] and dim_names[1].
DiscriminantEntry(data, dimensions) ==
    IF Len(dimensions) >= 2
    THEN Entry("discriminant",
               discriminant_validity(data, dimensions[1].items, dimensions[2].items))
    ELSE {}

\* Criterion validity against the study's criterion column whatever name
\* the caller passed.
CriterionEntry_fixed_column(data, all_items, criterion_variable) ==
    Entry("criterion", criterion_validity(data, all_items, "VIABILIDAD_LMS"))

\* criterion_variable is <<>> for None and <<name>> for a name; None and the
\* empty string are falsy.
CriterionEntry(data, all_items, criterion_variable) ==
    IF /\ criterion_variable # <<>>
       /\ criterion_variable[1] # ""
       /\ criterion_variable[1] \in Columns
    THEN Entry("criterion", criterion_validity(data, all_items, criterion_variable[1]))
    ELSE {}

\* results['validity']
Validity(data, dimensions, include_validity, criterion_variable, seed) ==
    IF include_validity
    THEN Dict(FactorialEntries(data, dimensions, seed)
              \cup ConvergentEntries(data, dimensions)
              \cup DiscriminantEntry(data, dimensions)
              \cup CriterionEntry(data, AllItems(dimensions), criterion_variable))
    ELSE Dict({})

\* The keys of a result dict under which an escaped exception sits.
RaisedIn(d) == {k \in DOMAIN d : IsRaise(d[k])}

\* The outcome of a call: the exception that reached the caller, if a metric
\* let one escape, else the returned report.
Outcome(report) ==
    IF RaisedIn(report.general) # {}
    THEN report.general[CHOOSE k \in RaisedIn(report.general) : TRUE]
    ELSE IF \E name \in DOMAIN report.by_dimension :
                RaisedIn(report.by_dimension[name]) # {}
    THEN LET name == CHOOSE nm \in DOMAIN report.by_dimension :
                         RaisedIn(report.by_dimension[nm]) # {}
             d == report.by_dimension[name]
         IN  d[CHOOSE k \in RaisedIn(d) : TRUE]
    ELSE IF RaisedIn(report.validity) # {}
    THEN report.validity[CHOOSE k \in RaisedIn(report.validity) : TRUE]
    ELSE report

comprehensive_reliability_validity(data, dimensions, include_validity, criterion_variable, seed) ==
    Outcome([general      |-> General(data, AllItems(dimensions)),
             by_dimension |-> ByDimension(data, dimensions),
             validity     |-> Validity(data, dimensions, include_validity,
                                       criterion_variable, seed)])

\* The legacy entry point relying on the default include_validity=True.
comprehensive_reliability_default_flag(data, dimensions, seed) ==
    comprehensive_reliability_validity(data, dimensions, TRUE, <<>>, seed)

\* Legacy entry point: include_validity=False, no criterion.
comprehensive_reliability(data, dimensions, seed) ==
    comprehensive_reliability_validity(data, dimensions, FALSE, <<>>, seed)

\* Module-level helper: a new analyzer on data, then the legacy entry point.
analyze_all_reliability(data, dimensions, seed) ==
    comprehensive_reliability(data, dimensions, seed)

\* ------------------------------------------------------------------------
\* Inputs
\* ------------------------------------------------------------------------

\* Largest number of respondents in a dataset.
NumRows == 4

\* Largest numerator of the coefficients n/100 that are interpreted.
MaxNumerator == 120

\* Largest square root looked for in a squared correlation's terms.
MaxRoot == 40

\* Largest number of dimensions in a mapping.
MaxDims == 3

\* Most judges, and most rated items, in a matrix of expert ratings.
MaxJudges == 5

MaxRatedItems == 3

Cell(v) == IF v = 0 THEN <<>> ELSE <<v>>

\* One respondent; 0 stands for a missing answer.
Row(p1, p2, p3, y) ==
    [c \in Columns |->
        IF c = "P1" THEN Cell(p1)
        ELSE IF c = "P2" THEN Cell(p2)
        ELSE IF c = "P3" THEN Cell(p3)
        ELSE Cell(y)]

\* Survey tables on a 1..3 scale: one with complete answers, one with gaps.
SurveyTables ==
    { << Row(1, 2, 1, 1), Row(2, 1, 3, 2), Row(3, 3, 2, 3), Row(2, 3, 3, 3), Row(3, 1, 2, 2) >>,
      << Row(0, 1, 2, 1), Row(2, 2, 0, 3), Row(1, 2, 1, 0), Row(3, 3, 3, 2), Row(2, 1, 3, 3) >> }

Min(a, b) == IF a <= b THEN a ELSE b

\* The first n respondents of each table: none, all NumRows, or all but the
\* last.
Datasets ==
    {SubSeq(d, 1, Min(n, Len(d))) : d \in SurveyTables,
                                    n \in {0} \cup (NumRows - 1)..NumRows}

\* Item lists a caller may give a dimension; "P9" is not a column.
ItemLists ==
    { <<"P3">>, <<"P1", "P2">>, <<"P1", "P2", "P3">>, <<"P2", "P9">> }

DimensionNames ==
    <<"Factor_Personal", "Factor_Tecnologico", "Factor_Institucional", "Viabilidad">>

\* Mappings of up to MaxDims dimensions with different item lists, named by
\* position.
Mappings ==
    UNION {{[j \in 1..n |-> [name |-> DimensionNames[j], items |-> f[j]]]
                : f \in {g \in [1..n -> ItemLists] :
                            \A a, b \in 1..n : a # b => g[a] # g[b]}}
           : n \in 0..Min(MaxDims, Len(DimensionNames))}

\* criterion_variable: None, the criterion column, or a name that is not a
\* column.
CriterionVariables == {<<>>, <<"VIABILIDAD_LMS">>, <<"P9">>}

\* FactorAnalysis without random_state: a fresh seed on every fit.
random_state_unset == {7, 42}

\* FactorAnalysis(n_components=n_factors, random_state=42)
random_state == {42}

\* ------------------------------------------------------------------------
\* State machine: one caller, one analyzer, synchronous calls
\* ------------------------------------------------------------------------

VARIABLES
    data,          \* self.data
    self_results,  \* self.results
    pc,            \* "idle", "returned", "repeated"
    call,          \* the call last made
    ret,           \* its outcome
    prev_ret       \* the outcome of the same call made just before, if any

vars == <<data, self_results, pc, call, ret, prev_ret>>

NoCall == [op |-> "none"]

\* ReliabilityAnalyzer.__init__
Init ==
    /\ data \in Datasets
    /\ self_results = <<>>
    /\ pc = "idle"
    /\ call = NoCall
    /\ ret = None
    /\ prev_ret = None

\* The caller calls an entry point and receives what it returns.
Invoke(c, result) ==
    /\ pc = "idle"
    /\ ret' = result
    /\ call' = c
    /\ pc' = "returned"
    /\ UNCHANGED <<data, self_results, prev_ret>>

CallComprehensiveReliabilityValidity ==
    \E dimensions \in Mappings, include_validity \in BOOLEAN,
       criterion_variable \in CriterionVariables, seed \in random_state :
        Invoke([op |-> "comprehensive_reliability_validity",
                dimensions |-> dimensions,
                include_validity |-> include_validity,
                criterion_variable |-> criterion_variable],
               comprehensive_reliability_validity(data, dimensions, include_validity,
                                                  criterion_variable, seed))

CallComprehensiveReliability ==
    \E dimensions \in Mappings, seed \in random_state :
        Invoke([op |-> "comprehensive_reliability", dimensions |-> dimensions],
               comprehensive_reliability(data, dimensions, seed))

CallAnalyzeAllReliability ==
    \E dimensions \in Mappings, seed \in random_state :
        Invoke([op |-> "analyze_all_reliability", dimensions |-> dimensions],
               analyze_all_reliability(data, dimensions, seed))

\* The call c made once more.
Apply(c, seed) ==
    IF c.op = "comprehensive_reliability_validity"
    THEN comprehensive_reliability_validity(data, c.dimensions, c.include_validity,
                                            c.criterion_variable, seed)
    ELSE IF c.op = "comprehensive_reliability"
    THEN comprehensive_reliability(data, c.dimensions, seed)
    ELSE analyze_all_reliability(data, c.dimensions, seed)

\* The caller makes the same call once more, on the same analyzer or on a
\* new ReliabilityAnalyzer(data).
CallAgain ==
    /\ pc = "returned"
    /\ \E seed \in random_state : ret' = Apply(call, seed)
    /\ \E fresh \in BOOLEAN : self_results' = IF fresh THEN <<>> ELSE self_results
    /\ prev_ret' = ret
    /\ pc' = "repeated"
    /\ UNCHANGED <<data, call>>

\* The caller drops the result and is ready for another call.
Discard ==
    /\ pc \in {"returned", "repeated"}
    /\ pc' = "idle"
    /\ call' = NoCall
    /\ ret' = None
    /\ prev_ret' = None
    /\ UNCHANGED <<data, self_results>>

Next ==
    \/ CallComprehensiveReliabilityValidity
    \/ CallComprehensiveReliability
    \/ CallAnalyzeAllReliability
    \/ CallAgain
    \/ Discard

Spec == Init /\ [][Next]_vars

\* ------------------------------------------------------------------------
\* Properties of the composition
\* ------------------------------------------------------------------------

\* The arguments of the call last made, whichever entry point took it.
CallDims == call.dimensions

CallIncl ==
    IF call.op = "comprehensive_reliability_validity" THEN call.include_validity
    ELSE FALSE

CallCrit ==
    IF call.op = "comprehensive_reliability_validity" THEN call.criterion_variable
    ELSE <<>>

\* The call has just returned to the caller.
Returned == pc = "returned"

IsReport(v) == "by_dimension" \in DOMAIN v

ReliabilityKeys == {"cronbach_alpha", "split_half", "kmo", "bartlett"}

\* The metric stored under a reliability key, run on its own.
Metric(key, items) ==
    IF key = "cronbach_alpha" THEN cronbach_alpha(data, items)
    ELSE IF key = "split_half" THEN split_half_reliability(data, items)
    ELSE IF key = "kmo" THEN kmo_test(data, items)
    ELSE bartlett_test(data, items)

\* The composition runs the metric on a dimension with these items.
IsRun(key, items) == key \in {"cronbach_alpha", "split_half"} \/ Len(items) >= 3

\* C1: the composition never aborts on a failed per-dimension metric;
\* by_dimension has one entry per dimension name of the mapping, and in it
\* each of the four reliability keys is present exactly when the metric was
\* run on the dimension's items and returned a result; what is stored is that
\* result, never None.
C1_ByDimensionOmitsFailedMetrics ==
    Returned =>
        /\ IsReport(ret)
        /\ DOMAIN ret.by_dimension = DimNamesOf(CallDims)
        /\ \A j \in DOMAIN CallDims :
              LET entry == ret.by_dimension[CallDims[j].name]
                  items == CallDims[j].items
              IN  /\ DOMAIN entry \subseteq ReliabilityKeys
                  /\ \A key \in ReliabilityKeys :
                        /\ key \in DOMAIN entry <=>
                              (IsRun(key, items) /\ Metric(key, items) # None)
                        /\ key \in DOMAIN entry =>
                              (entry[key] # None /\ entry[key] = Metric(key, items))

\* C1 witness: a report in which a three-item dimension has lost its KMO to
\* a failure and kept its Bartlett result, beside a dimension holding Alpha
\* and split-half.
C1_Witness ==
    /\ Returned
    /\ IsReport(ret)
    /\ \E a, b \in DOMAIN CallDims :
          /\ DOMAIN ret.by_dimension[CallDims[a].name] = {"cronbach_alpha", "split_half"}
          /\ Len(CallDims[b].items) >= 3
          /\ kmo_test(data, CallDims[b].items) = None
          /\ "kmo" \notin DOMAIN ret.by_dimension[CallDims[b].name]
          /\ "bartlett" \in DOMAIN ret.by_dimension[CallDims[b].name]

\* C2: in 'general' a metric key is present only when the metric succeeded
\* over the combined items; a failed metric is omitted, not stored as None.
C2_GeneralOmitsFailedMetrics ==
    (Returned /\ IsReport(ret)) =>
        \A key \in DOMAIN ret.general : ret.general[key] # None

\* Keys the validity map may hold for a mapping.
ValidityKeys(dimensions) ==
    {dimensions[j].name \o "_factorial" : j \in DOMAIN dimensions}
    \cup {dimensions[j].name \o "_convergent" : j \in DOMAIN dimensions}
    \cup {"discriminant", "criterion"}

\* C3: with include_validity the validity map holds at most one discriminant
\* entry, only for a mapping of at least 2 dimensions; it is the discriminant
\* validity of the first against the second dimension's items, and it is the
\* entry the first two dimensions alone would give.
C3_DiscriminantFirstTwo ==
    (Returned /\ CallIncl /\ IsReport(ret)) =>
        /\ DOMAIN ret.validity \subseteq ValidityKeys(CallDims)
        /\ "discriminant" \in DOMAIN ret.validity => Len(CallDims) >= 2
        /\ Len(CallDims) >= 2 =>
              LET first  == CallDims[1].items
                  second == CallDims[2].items
                  alone  == Validity(data, SubSeq(CallDims, 1, 2), TRUE, CallCrit, 42)
              IN  /\ "discriminant" \in DOMAIN ret.validity <=>
                        discriminant_validity(data, first, second) # None
                  /\ "discriminant" \in DOMAIN ret.validity <=>
                        "discriminant" \in DOMAIN alone
                  /\ "discriminant" \in DOMAIN ret.validity =>
                        /\ ret.validity["discriminant"] =
                               discriminant_validity(data, first, second)
                        /\ ret.validity["discriminant"].dimension1_items = first
                        /\ ret.validity["discriminant"].dimension2_items = second
                        /\ ret.validity["discriminant"] = alone["discriminant"]

\* C3 witness: three dimensions, the third unlike the second, and a
\* discriminant entry in the report.
C3_Witness ==
    /\ Returned
    /\ CallIncl
    /\ IsReport(ret)
    /\ Len(CallDims) = 3
    /\ "discriminant" \in DOMAIN ret.validity
    /\ ~MissingColumn(CallDims[3].items)
    /\ discriminant_validity(data, CallDims[1].items, CallDims[3].items)
           # ret.validity["discriminant"]

\* C4: a 'criterion' entry exists only if include_validity is set, a
\* criterion name was given and it is a column of the dataset; otherwise
\* there is none, and no error reaches the caller; when present it is the
\* criterion validity of all dimensions' items combined.
C4_CriterionOnlyWhenSuppliedAndPresent ==
    Returned =>
        /\ IsReport(ret)
        /\ "criterion" \in DOMAIN ret.validity =>
              /\ CallIncl
              /\ CallCrit # <<>>
              /\ CallCrit[1] \in Columns
              /\ ret.validity["criterion"] =
                     criterion_validity(data, AllItems(CallDims), CallCrit[1])
              /\ ret.validity["criterion"].criterion_variable = CallCrit[1]
        /\ (CallCrit = <<>> \/ CallCrit[1] \notin Columns \/ ~CallIncl) =>
              "criterion" \notin DOMAIN ret.validity
        /\ (CallIncl /\ CallCrit # <<>> /\ CallCrit[1] \in Columns
                /\ criterion_validity(data, AllItems(CallDims), CallCrit[1]) # None) =>
              "criterion" \in DOMAIN ret.validity

\* C4 witness: a criterion entry over the items of two dimensions.
C4_Witness ==
    /\ Returned
    /\ IsReport(ret)
    /\ Len(CallDims) >= 2
    /\ "criterion" \in DOMAIN ret.validity
    /\ ret.validity["criterion"].n_observations >= 2

\* C5: without include_validity (and so for comprehensive_reliability and
\* analyze_all_reliability) the validity map is empty, and 'general' and
\* 'by_dimension' are those of the same call with include_validity.
C5_ValidityOffLeavesReliability ==
    (Returned /\ ~CallIncl) =>
        /\ IsReport(ret)
        /\ DOMAIN ret.validity = {}
        /\ LET full == comprehensive_reliability_validity(data, CallDims, TRUE,
                                                          CallCrit, 42)
           IN  /\ IsReport(full)
               /\ ret.general = full.general
               /\ ret.by_dimension = full.by_dimension

\* C5 witness: a legacy call whose mapping would yield validity results.
C5_Witness ==
    /\ Returned
    /\ call.op \in {"comprehensive_reliability", "analyze_all_reliability"}
    /\ IsReport(ret)
    /\ DOMAIN ret.validity = {}
    /\ DOMAIN Validity(data, CallDims, TRUE, <<>>, 42) # {}
    /\ \E name \in DOMAIN ret.by_dimension : DOMAIN ret.by_dimension[name] # {}

\* C6: by_dimension[dim] holds 'kmo' or 'bartlett' only for a dimension of at
\* least 3 items; validity holds '<dim>_factorial' only for at least 3 items
\* and '<dim>_convergent' only for at least 2; Alpha and split-half are run
\* whatever the item count, so they are present whenever they return a result.
C6_ItemCountGates ==
    (Returned /\ IsReport(ret)) =>
        \A j \in DOMAIN CallDims :
            LET name  == CallDims[j].name
                items == CallDims[j].items
                entry == ret.by_dimension[name]
            IN  /\ "kmo" \in DOMAIN entry => Len(items) >= 3
                /\ "bartlett" \in DOMAIN entry => Len(items) >= 3
                /\ (name \o "_factorial") \in DOMAIN ret.validity => Len(items) >= 3
                /\ (name \o "_convergent") \in DOMAIN ret.validity => Len(items) >= 2
                /\ cronbach_alpha(data, items) # None => "cronbach_alpha" \in DOMAIN entry
                /\ split_half_reliability(data, items) # None => "split_half" \in DOMAIN entry

\* C6 witness: a one-item dimension with a split-half result, beside a
\* two-item dimension with convergent but no factorial validity and no KMO.
C6_Witness ==
    /\ Returned
    /\ IsReport(ret)
    /\ \E a, b \in DOMAIN CallDims :
          /\ Len(CallDims[a].items) = 1
          /\ "split_half" \in DOMAIN ret.by_dimension[CallDims[a].name]
          /\ Len(CallDims[b].items) = 2
          /\ (CallDims[b].name \o "_convergent") \in DOMAIN ret.validity
          /\ (CallDims[b].name \o "_factorial") \notin DOMAIN ret.validity
          /\ construct_validity_factorial(data, CallDims[b].items, <<>>, 42) # None
          /\ "cronbach_alpha" \in DOMAIN ret.by_dimension[CallDims[b].name]
          /\ "kmo" \notin DOMAIN ret.by_dimension[CallDims[b].name]

\* The items of a list, each once, in order of first occurrence.
RECURSIVE UnionOfItems(_)
UnionOfItems(items) ==
    IF Len(items) = 0 THEN <<>>
    ELSE LET front == UnionOfItems(SubSeq(items, 1, Len(items) - 1))
             last  == items[Len(items)]
         IN  IF last \in Range(front) THEN front ELSE Append(front, last)

\* C7: the 'general' metrics are computed over the union of the items of all
\* dimensions, an item of several dimensions counted once: the general Alpha
\* is the Alpha of the distinct items, and its n_items their number.
C7_GeneralOverUnion ==
    (Returned /\ IsReport(ret)) =>
        /\ ret.general.cronbach_alpha =
               cronbach_alpha(data, UnionOfItems(AllItems(CallDims)))
        /\ ret.general.cronbach_alpha # None =>
               ret.general.cronbach_alpha.n_items =
                   Cardinality(Range(AllItems(CallDims)))

\* C8: a call with an empty dimension mapping ends in an error that reaches
\* the caller, not in a report.
C8_EmptyMappingRaises ==
    (Returned /\ CallDims = <<>>) => IsRaise(ret)

\* The mapping without its j-th dimension.
WithoutDim(dimensions, j) ==
    [t \in 1..(Len(dimensions) - 1) |->
        IF t < j THEN dimensions[t] ELSE dimensions[t + 1]]

\* C9: a dimension naming a column the dataset lacks fails every metric with
\* a KeyError that never reaches the caller: its by_dimension entry exists
\* and is empty, and the entries of the other dimensions are those of the
\* mapping without it.
C9_MissingColumnDimension ==
    Returned =>
        \A j \in DOMAIN CallDims :
            MissingColumn(CallDims[j].items) =>
                /\ IsReport(ret)
                /\ CallDims[j].name \in DOMAIN ret.by_dimension
                /\ DOMAIN ret.by_dimension[CallDims[j].name] = {}
                /\ cronbach_alpha_body(data, CallDims[j].items) = Raise("KeyError")
                /\ split_half_reliability_body(data, CallDims[j].items) = Raise("KeyError")
                /\ kmo_test_body(data, CallDims[j].items) = Raise("KeyError")
                /\ bartlett_test_body(data, CallDims[j].items) = Raise("KeyError")
                /\ \A key \in ReliabilityKeys : Metric(key, CallDims[j].items) = None
                /\ LET rest == ByDimension(data, WithoutDim(CallDims, j))
                   IN  \A t \in DOMAIN CallDims :
                          t # j => ret.by_dimension[CallDims[t].name]
                                       = rest[CallDims[t].name]

\* C9 witness: a dimension with a missing column between two dimensions that
\* hold results.
C9_Witness ==
    /\ Returned
    /\ IsReport(ret)
    /\ Len(CallDims) = 3
    /\ MissingColumn(CallDims[2].items)
    /\ DOMAIN ret.by_dimension[CallDims[2].name] = {}
    /\ "cronbach_alpha" \in DOMAIN ret.by_dimension[CallDims[1].name]
    /\ "kmo" \in DOMAIN ret.by_dimension[CallDims[3].name]

Items == {"P1", "P2", "P3"}

\* Tables on the same scale: P1 = P2 and P3 = 4 - P1; P1 constant; three
\* items that agree closely; three items without any pairwise correlation;
\* P1 and P2 that agree almost perfectly on a 1..5 scale, with P3 constant.
DegenerateTables ==
    { << Row(1, 1, 3, 1), Row(2, 2, 2, 2), Row(3, 3, 1, 3), Row(1, 1, 3, 2), Row(2, 2, 2, 1) >>,
      << Row(2, 1, 3, 1), Row(2, 3, 1, 2), Row(2, 2, 2, 3), Row(2, 3, 3, 1), Row(2, 1, 1, 3) >>,
      << Row(1, 1, 1, 1), Row(2, 2, 3, 2), Row(3, 3, 3, 3), Row(1, 2, 1, 1), Row(3, 2, 3, 3) >>,
      << Row(1, 1, 3, 1), Row(1, 3, 1, 2), Row(3, 1, 1, 2), Row(3, 3, 3, 3) >>,
      << Row(1, 1, 2, 1), Row(2, 2, 2, 2), Row(2, 2, 2, 2), Row(4, 5, 2, 3) >> }

\* The first n respondents of each table, n = 0..NumRows.
MetricDatasets ==
    {SubSeq(d, 1, Min(n, Len(d))) : d \in SurveyTables \cup DegenerateTables,
                                    n \in 0..NumRows}

\* Item lists given to a metric: every list of distinct items in every
\* order, a list with a repeated item, and a list naming a missing column.
MetricItemLists ==
    UNION {{f \in [1..k -> Items] : \A a, b \in 1..k : a # b => f[a] # f[b]}
           : k \in 0..Cardinality(Items)}
    \cup { <<"P1", "P1">>, <<"P2", "P9">> }

MetricInit ==
    /\ data \in MetricDatasets
    /\ self_results = <<>>
    /\ pc = "idle"
    /\ call = NoCall
    /\ ret = None
    /\ prev_ret = None

CallCronbachAlpha ==
    \E items \in MetricItemLists :
        Invoke([op |-> "cronbach_alpha", items |-> items],
               cronbach_alpha(data, items))

CallSplitHalfReliability ==
    \E items \in MetricItemLists :
        Invoke([op |-> "split_half_reliability", items |-> items],
               split_half_reliability(data, items))

\* The coefficients handed to the interpretation tables: the hundredths
\* from -MaxNumerator/100 to MaxNumerator/100, nan and the infinities.
Coefficients ==
    {Num(n, 100) : n \in -MaxNumerator..MaxNumerator}
        \cup {NaN, Num(1, 0), Num(-1, 0)}

CallInterpretCronbach ==
    \E alpha \in Coefficients :
        Invoke([op |-> "_interpret_cronbach", alpha |-> alpha],
               _interpret_cronbach(alpha))

CallGetReliabilityInterpretation ==
    \E alpha_value \in Coefficients :
        Invoke([op |-> "get_reliability_interpretation", alpha |-> alpha_value],
               get_reliability_interpretation(alpha_value))

CallKmoTest ==
    \E items \in MetricItemLists :
        Invoke([op |-> "kmo_test", items |-> items], kmo_test(data, items))

CallBartlettTest ==
    \E items \in MetricItemLists :
        Invoke([op |-> "bartlett_test", items |-> items], bartlett_test(data, items))

MetricNext ==
    \/ CallCronbachAlpha
    \/ CallSplitHalfReliability
    \/ CallKmoTest
    \/ CallBartlettTest
    \/ CallInterpretCronbach
    \/ CallGetReliabilityInterpretation
    \/ Discard

MetricSpec == MetricInit /\ [][MetricNext]_vars

\* A call of cronbach_alpha has just returned.
AlphaReturned == pc = "returned" /\ call.op = "cronbach_alpha"

\* A call of split_half_reliability has just returned.
SplitHalfReturned == pc = "returned" /\ call.op = "split_half_reliability"

\* No cell of the dataset is missing.
NoMissingData == \A i \in DOMAIN data : \A c \in Columns : ~IsMissing(data[i][c])

\* Sample variance from its definition: the squared deviations from the
\* mean, summed and divided by n - 1.
ReferenceVariance(x) ==
    LET n    == Cardinality(DOMAIN x)
        mean == Num(Sum(x), n)
        dev  == [i \in DOMAIN x |-> RSub(FromInt(x[i]), mean)]
    IN  RDiv(RSum([i \in DOMAIN x |-> RMul(dev[i], dev[i])]), FromInt(n - 1))

\* (k/(k-1)) * (1 - Vi/Vt) over all rows of the dataset.
ReferenceAlpha(items) ==
    LET k  == Len(items)
        Vi == RSum([j \in DOMAIN items |->
                       ReferenceVariance([i \in DOMAIN data |-> data[i][items[j]][1]])])
        Vt == ReferenceVariance(
                  [i \in DOMAIN data |->
                      Sum([j \in DOMAIN items |-> data[i][items[j]][1]])])
    IN  RMul(RDiv(FromInt(k), FromInt(k - 1)), RSub(FromInt(1), RDiv(Vi, Vt)))

\* C12: for a list of k >= 2 distinct existing items on a non-empty dataset
\* without missing values, cronbach_alpha returns a record whose alpha is
\* (k/(k-1)) * (1 - Vi/Vt), Vi the sum of the items' sample variances and Vt
\* the sample variance of the row sums (both with divisor n-1), and whose
\* n_items is k.
C12_AlphaIsReferenceValue ==
    (/\ AlphaReturned
     /\ Len(call.items) >= 2
     /\ ~HasDuplicates(call.items)
     /\ ~MissingColumn(call.items)
     /\ NoMissingData
     /\ Len(data) >= 1) =>
        /\ ret # None
        /\ ret.alpha = ReferenceAlpha(call.items)
        /\ ret.n_items = Len(call.items)

\* C12 witness: an Alpha strictly between 0 and 1 for three items over at
\* least four complete rows.
C12_Witness ==
    /\ AlphaReturned
    /\ Len(call.items) = 3
    /\ NoMissingData
    /\ Len(data) >= 4
    /\ ret # None
    /\ IsFinite(ret.alpha)
    /\ ret.alpha.n > 0
    /\ ret.alpha.n < ret.alpha.d

\* The lists that hold the same items as a list, in any order.
Reorderings(items) ==
    {f \in [DOMAIN items -> Range(items)] :
        \A c \in Range(items) : Count(f, c) = Count(items, c)}

\* C13: cronbach_alpha does not depend on the order of its item list: for
\* every permutation of the list the call gives a result exactly when the
\* original does, with the same alpha, n_items and n_observations, and with
\* item_total_correlations and alpha_if_item_deleted mapping each item to the
\* same value.
C13_AlphaPermutationInvariant ==
    AlphaReturned =>
        \A permuted \in Reorderings(call.items) :
            LET other == cronbach_alpha(data, permuted)
            IN  /\ (ret = None) <=> (other = None)
                /\ ret # None =>
                      /\ other.alpha = ret.alpha
                      /\ other.n_items = ret.n_items
                      /\ other.n_observations = ret.n_observations
                      /\ other.item_total_correlations = ret.item_total_correlations
                      /\ other.alpha_if_item_deleted = ret.alpha_if_item_deleted
                      /\ other.interpretation = ret.interpretation

\* C13 witness: three items given out of column order, with item-total
\* correlations and alpha-if-deleted values that differ between items.
C13_Witness ==
    /\ AlphaReturned
    /\ call.items = <<"P3", "P1", "P2">>
    /\ ret # None
    /\ IsFinite(ret.alpha)
    /\ ret.item_total_correlations["P1"] # ret.item_total_correlations["P2"]
    /\ ret.item_total_correlations["P2"] # ret.item_total_correlations["P3"]
    /\ ret.alpha_if_item_deleted["P1"] # ret.alpha_if_item_deleted["P3"]

\* The rows of the dataset with a value in every one of the items, as a
\* dataset of their own.
CompleteCases(items) ==
    SelectSeq(data, LAMBDA row : \A c \in Range(items) : row[c] # <<>>)

\* C14: cronbach_alpha deletes listwise over the selected items only:
\* n_observations is the number of rows with a value in every selected item
\* (a row missing a value only in another column counts), the result is the
\* one computed from those rows alone, and when no row is complete there is
\* no result.
C14_AlphaListwiseDeletion ==
    (AlphaReturned /\ ~MissingColumn(call.items)) =>
        /\ Len(CompleteCases(call.items)) = 0 => ret = None
        /\ ret # None => ret.n_observations = Len(CompleteCases(call.items))
        /\ ret = cronbach_alpha(CompleteCases(call.items), call.items)

\* C14 witness: a result over two rows or more where one row was deleted for
\* a missing selected item and a kept row lacks a value in another column.
C14_Witness ==
    /\ AlphaReturned
    /\ ~MissingColumn(call.items)
    /\ ret # None
    /\ ret.n_observations >= 2
    /\ ret.n_observations < Len(data)
    /\ \E i \in DOMAIN data :
          /\ \A c \in Range(call.items) : data[i][c] # <<>>
          /\ \E c \in Columns \ Range(call.items) : data[i][c] = <<>>

\* C15: given fewer than 2 items, cronbach_alpha and split_half_reliability
\* return no result.
C15_TooFewItemsNoResult ==
    ((AlphaReturned \/ SplitHalfReturned) /\ Len(call.items) < 2) => ret = None

\* The position of a label in its table, from the lowest band (0) up.
Band(label) ==
    CASE label \in {"Muy baja (Inaceptable)", "Inaceptable"}   -> 0
      [] label \in {"Baja (Pobre)", "Pobre"}                   -> 1
      [] label \in {"Moderada (Cuestionable)", "Cuestionable"} -> 2
      [] label \in {"Alta (Aceptable)", "Aceptable"}           -> 3
      [] label \in {"Muy alta (Buena)", "Bueno"}               -> 4
      [] label \in {"Elevada (Excelente)", "Excelente"}        -> 5

\* The band the specification's table gives to the float n/d: the number of
\* thresholds 0.50, 0.60, 0.70, 0.80, 0.90 that n/d reaches.
ReferenceBand(a) ==
    IF IsNaN(a) THEN 0
    ELSE IF a.d = 0 THEN (IF a.n > 0 THEN 5 ELSE 0)
    ELSE Cardinality({t \in {5, 6, 7, 8, 9} : 10 * a.n >= t * a.d})

\* C16: the reliability interpretation is a total, monotone step function
\* with the bands >=0.90, >=0.80, >=0.70, >=0.60, >=0.50 and below; a
\* boundary value belongs to the higher band; cronbach_alpha and
\* split_half_reliability use this table; the bands of
\* config.get_reliability_interpretation are the same.
C16_InterpretationStepFunction ==
    /\ (pc = "returned" /\ call.op = "_interpret_cronbach") =>
          /\ ret \in {"Elevada (Excelente)", "Muy alta (Buena)", "Alta (Aceptable)",
                      "Moderada (Cuestionable)", "Baja (Pobre)",
                      "Muy baja (Inaceptable)"}
          /\ Band(ret) = ReferenceBand(call.alpha)
          /\ \A b \in Coefficients :
                RGeq(call.alpha, b) => Band(_interpret_cronbach(b)) <= Band(ret)
          /\ Band(get_reliability_interpretation(call.alpha)) = Band(ret)
    /\ (pc = "returned" /\ call.op = "get_reliability_interpretation") =>
          /\ ret \in {"Excelente", "Bueno", "Aceptable", "Cuestionable", "Pobre",
                      "Inaceptable"}
          /\ Band(ret) = ReferenceBand(call.alpha)
    /\ (AlphaReturned /\ ret # None) =>
          Band(ret.interpretation) = ReferenceBand(ret.alpha)
    /\ (SplitHalfReturned /\ ret # None
            /\ ret.spearman_brown_coefficient.special # None) =>
          Band(ret.interpretation)
              = ReferenceBand(ret.spearman_brown_coefficient.special)

\* A boundary value, a negative value and a value above 1 have been
\* interpreted: here the boundary 0.80 received the higher band.
C16_Witness ==
    /\ pc = "returned"
    /\ call.op = "_interpret_cronbach"
    /\ call.alpha = Num(80, 100)
    /\ ret = "Muy alta (Buena)"

\* Pearson correlation from its definition, on deviations from the means:
\* the sign of the co-deviation sum and the squared coefficient.
ReferenceCorr(x, y) ==
    LET I   == DOMAIN x
        n   == Cardinality(I)
        mx  == Num(Sum(x), n)
        my  == Num(Sum(y), n)
        dx  == [i \in I |-> RSub(FromInt(x[i]), mx)]
        dy  == [i \in I |-> RSub(FromInt(y[i]), my)]
        sxy == RSum([i \in I |-> RMul(dx[i], dy[i])])
        sxx == RSum([i \in I |-> RMul(dx[i], dx[i])])
        syy == RSum([i \in I |-> RMul(dy[i], dy[i])])
    IN  IF n <= 1 \/ sxx.n = 0 \/ syy.n = 0 THEN CorrNaN
        ELSE LET q == RDiv(RMul(sxy, sxy), RMul(sxx, syy))
             IN  [sgn |-> Sign(sxy.n), n |-> q.n, d |-> q.d]

\* The Alpha formula from its definition over the rows of a table.
ReferenceAlphaOn(rows, items) ==
    LET k  == Len(items)
        Vi == RSum([j \in DOMAIN items |->
                       ReferenceVariance([i \in DOMAIN rows |-> rows[i][items[j]][1]])])
        Vt == ReferenceVariance(
                  [i \in DOMAIN rows |->
                      Sum([j \in DOMAIN items |-> rows[i][items[j]][1]])])
    IN  RMul(RDiv(FromInt(k), FromInt(k - 1)), RSub(FromInt(1), RDiv(Vi, Vt)))

\* The sum of the other selected items in each row of a table.
SumOfOthers(rows, items, item) ==
    [i \in DOMAIN rows |->
        Sum([c \in Range(items) \ {item} |-> rows[i][c][1]])]

\* C17: a record of cronbach_alpha has one item-total correlation per item,
\* the item against the sum of the other selected items over the complete
\* rows; alpha_if_item_deleted has no entry for k = 2 and one entry per item
\* for k >= 3, each the Alpha formula over the other k-1 items on the same
\* complete rows.
C17_PerItemStatistics ==
    (AlphaReturned /\ ret # None) =>
        LET items == call.items
            rows  == CompleteCases(items)
            k     == Len(items)
        IN  /\ DOMAIN ret.item_total_correlations = Range(items)
            /\ \A item \in Range(items) :
                  ret.item_total_correlations[item]
                      = ReferenceCorr([i \in DOMAIN rows |-> rows[i][item][1]],
                                      SumOfOthers(rows, items, item))
            /\ DOMAIN ret.alpha_if_item_deleted
                  = IF k >= 3 THEN Range(items) ELSE {}
            /\ \A item \in DOMAIN ret.alpha_if_item_deleted :
                  ret.alpha_if_item_deleted[item]
                      = ReferenceAlphaOn(rows, SelectSeq(items, LAMBDA c : c # item))

\* cronbach_alpha has returned the per-item statistics of three items on a
\* table that lost a row to a missing value: the correlations are numbers
\* and the alphas without an item are finite.
C17_Witness ==
    /\ AlphaReturned
    /\ ret # None
    /\ Len(call.items) = 3
    /\ Len(CompleteCases(call.items)) \in 2..(Len(data) - 1)
    /\ \A item \in Range(call.items) :
          /\ ~CorrIsNaN(ret.item_total_correlations[item])
          /\ IsFinite(ret.alpha_if_item_deleted[item])

\* C18: split_half_reliability splits the item list by position: the first
\* half is the first floor(k/2) items, the second half the rest, so the two
\* halves concatenated are the list, the second half is never the shorter
\* one, and the halves depend on the list alone.
C18_SplitByPosition ==
    (SplitHalfReturned /\ ret # None) =>
        LET items == call.items
            k     == Len(items)
        IN  /\ 2 * Len(ret.first_half_items) <= k
            /\ k < 2 * Len(ret.first_half_items) + 2
            /\ ret.first_half_items \o ret.second_half_items = items
            /\ Len(ret.second_half_items) >= Len(ret.first_half_items)
            /\ \A other \in MetricDatasets :
                  LET again == split_half_reliability(other, items)
                  IN  /\ again # None
                      /\ again.first_half_items = ret.first_half_items
                      /\ again.second_half_items = ret.second_half_items

\* split_half_reliability has split a list of three items: one item in the
\* first half, two in the second.
C18_Witness ==
    /\ SplitHalfReturned
    /\ ret # None
    /\ Len(call.items) = 3
    /\ ret.first_half_items = <<call.items[1]>>
    /\ ret.second_half_items = <<call.items[2], call.items[3]>>

\* The sum-score of a half in each row of a table.
ReferenceHalfScore(rows, half) ==
    [i \in DOMAIN rows |-> Sum([j \in DOMAIN half |-> rows[i][half[j]][1]])]

\* The correlation between the two half-scores over the rows that are
\* complete in all the items.
ReferenceHalvesCorr(items, first, second) ==
    ReferenceCorr(ReferenceHalfScore(CompleteCases(items), first),
                  ReferenceHalfScore(CompleteCases(items), second))

\* n is a perfect square up to MaxRoot^2.
IsSquare(n) == \E a \in 0..MaxRoot : a * a = n

\* The integer square root of such a perfect square.
Root(n) == CHOOSE a \in 0..MaxRoot : a * a = n

\* 2r/(1+r) as a float, for a correlation r that is nan or rational.
ReferenceSpearmanBrown(r) ==
    IF CorrIsNaN(r) THEN NaN
    ELSE LET x == Num(r.sgn * Root(r.n), Root(r.d))
         IN  RDiv(RMul(FromInt(2), x), RAdd(FromInt(1), x))

C20_NoRecordAtMinusOne ==
    (SplitHalfReturned /\ ret # None) =>
        /\ ~(ret.correlation_halves.sgn = -1
                /\ ret.correlation_halves.n = ret.correlation_halves.d)
        /\ ret.spearman_brown_coefficient.special \notin {Num(-1, 0), Num(1, 0)}

\* ------------------------------------------------------------------------
\* State machine: several callers on one analyzer, calls interleaved
\* ------------------------------------------------------------------------

\* The callers that share the analyzer.
Callers == {"caller1", "caller2"}

TwoDimensions ==
    << [name |-> "Factor_Personal", items |-> <<"P1", "P2", "P3">>],
       [name |-> "Factor_Tecnologico", items |-> <<"P1", "P2">>] >>

\* The calls the callers make: every metric that reads the dataset, and the
\* composition through its two entry points.
ConcurrentCalls ==
    { [op |-> "cronbach_alpha", items |-> <<"P1", "P2", "P3">>],
      [op |-> "split_half_reliability", items |-> <<"P1", "P2", "P3">>],
      [op |-> "kmo_test", items |-> <<"P1", "P2", "P3">>],
      [op |-> "bartlett_test", items |-> <<"P1", "P2", "P3">>],
      [op |-> "construct_validity_factorial", items |-> <<"P1", "P2", "P3">>],
      [op |-> "convergent_validity", items |-> <<"P1", "P2", "P3">>],
      [op |-> "discriminant_validity", items |-> <<"P1", "P2">>,
       dimension2_items |-> <<"P3">>],
      [op |-> "criterion_validity", items |-> <<"P1", "P2">>,
       criterion_var |-> "VIABILIDAD_LMS"],
      [op |-> "comprehensive_reliability_validity", dimensions |-> TwoDimensions,
       include_validity |-> TRUE, criterion_variable |-> <<"VIABILIDAD_LMS">>],
      [op |-> "comprehensive_reliability", dimensions |-> TwoDimensions,
       include_validity |-> FALSE, criterion_variable |-> <<>>] }

IsComposition(c) ==
    c.op \in {"comprehensive_reliability_validity", "comprehensive_reliability"}

\* A single metric called on the dataset d.
RunMetric(c, d, seed) ==
    CASE c.op = "cronbach_alpha" -> cronbach_alpha(d, c.items)
      [] c.op = "split_half_reliability" -> split_half_reliability(d, c.items)
      [] c.op = "kmo_test" -> kmo_test(d, c.items)
      [] c.op = "bartlett_test" -> bartlett_test(d, c.items)
      [] c.op = "construct_validity_factorial" ->
            construct_validity_factorial(d, c.items, <<>>, seed)
      [] c.op = "convergent_validity" -> convergent_validity(d, c.items)
      [] c.op = "discriminant_validity" ->
            discriminant_validity(d, c.items, c.dimension2_items)
      [] c.op = "criterion_validity" ->
            criterion_validity(d, c.items, c.criterion_var)

\* One analyzer shared by the callers, none of them in a call.
ConcurrentInit ==
    /\ data \in Datasets
    /\ self_results = <<>>
    /\ pc = [c \in Callers |-> "idle"]
    /\ call = [c \in Callers |-> NoCall]
    /\ ret = [c \in Callers |-> None]
    /\ prev_ret = None

\* A caller enters a method: a metric is about to read self.data, the
\* composition has created its local results dict.
Enter(caller) ==
    /\ pc[caller] = "idle"
    /\ \E c \in ConcurrentCalls :
          /\ call' = [call EXCEPT ![caller] = c]
          /\ pc' = [pc EXCEPT ![caller] = IF IsComposition(c) THEN "by_dimension"
                                          ELSE "metric"]
          /\ ret' = [ret EXCEPT ![caller] =
                        IF IsComposition(c)
                        THEN [general |-> Dict({}), by_dimension |-> Dict({}),
                              validity |-> Dict({})]
                        ELSE None]
    /\ UNCHANGED <<data, self_results, prev_ret>>

\* "return result" with the result held in a local variable and stored
\* in self.results as well.
Return_stores_results(caller, result) ==
    /\ ret' = [ret EXCEPT ![caller] = result]
    /\ pc' = [pc EXCEPT ![caller] = "returned"]
    /\ self_results' = result
    /\ UNCHANGED <<data, call, prev_ret>>

\* "return result": the result goes to the caller and nowhere else.
Return(caller, result) ==
    /\ ret' = [ret EXCEPT ![caller] = result]
    /\ pc' = [pc EXCEPT ![caller] = "returned"]
    /\ UNCHANGED <<data, self_results, call, prev_ret>>

\* A metric runs on the dataset as it is now and returns.
RunSingleMetric(caller) ==
    /\ pc[caller] = "metric"
    /\ \E seed \in random_state : Return(caller, RunMetric(call[caller], data, seed))

\* The composition goes on with its local results dict, or ends with the
\* exception a metric let escape.
Continue(caller, results, next) ==
    IF IsRaise(Outcome(results))
    THEN Return(caller, Outcome(results))
    ELSE /\ ret' = [ret EXCEPT ![caller] = results]
         /\ pc' = [pc EXCEPT ![caller] = next]
         /\ UNCHANGED <<data, self_results, call, prev_ret>>

\* results['by_dimension'] with the dim_results of one more dimension.
WithDimension(by_dimension, name, dim_results) ==
    [nm \in DOMAIN by_dimension \cup {name} |->
        IF nm = name THEN dim_results ELSE by_dimension[nm]]

\* One pass of the loop over dimensions.items().
AnalyzeDimension(caller) ==
    /\ pc[caller] = "by_dimension"
    /\ LET dimensions == call[caller].dimensions
           j          == Cardinality(DOMAIN ret[caller].by_dimension) + 1
       IN  Continue(caller,
                    [ret[caller] EXCEPT !.by_dimension =
                        WithDimension(@, dimensions[j].name,
                                      DimResults(data, dimensions[j].items))],
                    IF j = Len(dimensions) THEN "general" ELSE "by_dimension")

\* The four metrics over all the items.
AnalyzeGeneral(caller) ==
    /\ pc[caller] = "general"
    /\ Continue(caller,
                [ret[caller] EXCEPT !.general =
                    General(data, AllItems(call[caller].dimensions))],
                "validity")

\* The validity section, then "return results".
AnalyzeValidity(caller) ==
    /\ pc[caller] = "validity"
    /\ \E seed \in random_state :
          Return(caller,
                 Outcome([ret[caller] EXCEPT !.validity =
                     Validity(data, call[caller].dimensions,
                              call[caller].include_validity,
                              call[caller].criterion_variable, seed)]))

\* A caller drops its result and is ready for another call.
Leave(caller) ==
    /\ pc[caller] = "returned"
    /\ pc' = [pc EXCEPT ![caller] = "idle"]
    /\ call' = [call EXCEPT ![caller] = NoCall]
    /\ ret' = [ret EXCEPT ![caller] = None]
    /\ UNCHANGED <<data, self_results, prev_ret>>

ConcurrentNext ==
    \E caller \in Callers :
        \/ Enter(caller)
        \/ RunSingleMetric(caller)
        \/ AnalyzeDimension(caller)
        \/ AnalyzeGeneral(caller)
        \/ AnalyzeValidity(caller)
        \/ Leave(caller)

ConcurrentSpec == ConcurrentInit /\ [][ConcurrentNext]_vars

\* The result of a call made alone on the dataset d.
Alone(c, d) ==
    IF IsComposition(c)
    THEN comprehensive_reliability_validity(d, c.dimensions, c.include_validity,
                                            c.criterion_variable, 42)
    ELSE RunMetric(c, d, 42)

\* Every call that has returned holds the result it gives alone.
ReturnedAsAlone ==
    \A caller \in Callers :
        pc[caller] = "returned" => ret[caller] = Alone(call[caller], data)

\* C11: no operation writes the analyzer's dataset or its results
\* attribute, which stays the empty mapping; under every interleaving of
\* the callers' calls each call returns the result it returns alone.
C11_NoWritesCallsIndependent ==
    /\ [](self_results = <<>> /\ ReturnedAsAlone)
    /\ [][data' = data /\ self_results' = self_results]_vars

\* Two calls overlapped: one caller is inside the composition, past its
\* first dimension, while the other has returned from a metric that was
\* called and run in the meantime.
C11_Witness ==
    /\ pc["caller1"] = "general"
    /\ pc["caller2"] = "returned"
    /\ call["caller2"].op = "cronbach_alpha"
    /\ ret["caller2"] # None
    /\ Len(data) = NumRows

\* ------------------------------------------------------------------------
\* Properties of KMO, Bartlett and the validity metrics
\* ------------------------------------------------------------------------

\* A call of kmo_test has just returned.
KmoReturned == pc = "returned" /\ call.op = "kmo_test"

\* 0 <= a <= 1 for a float a: false for nan.
InUnitInterval(a) == RGeq(a, FromInt(0)) /\ RGeq(FromInt(1), a)

\* C21: in every record of kmo_test the global KMO and every per-item KMO
\* lie in [0, 1]; a correlation matrix whose ratio is undefined gives no
\* record.
C21_KmoWithinUnitInterval ==
    (KmoReturned /\ ret # None) =>
        /\ InUnitInterval(ret.kmo_global)
        /\ \A item \in DOMAIN ret.kmo_per_variable :
              InUnitInterval(ret.kmo_per_variable[item])

\* A call of bartlett_test has just returned.
BartlettReturned == pc = "returned" /\ call.op = "bartlett_test"

\* The determinant of the correlation matrix of the items over their
\* complete rows.
CallDeterminant ==
    DetCorr(SSMatrix(data, dropna(data, call.items), call.items),
            Len(call.items), Cardinality(dropna(data, call.items)))

\* C22: bartlett_test returns no result when the determinant of the
\* correlation matrix is not positive.
C22_SingularGivesNoResult ==
    (BartlettReturned /\ ~MissingColumn(call.items)
        /\ RGeq(FromInt(0), CallDeterminant)) => ret = None

\* The 0.95 quantiles of chi-square with 1 and 3 degrees of freedom, in
\* hundred-thousandths.
ChiSquareQuantile95 == [df \in {1, 3} |-> IF df = 1 THEN 384146 ELSE 781473]

\* The number of times D = num/den, 0 < D < 1, can be doubled without
\* exceeding 1.
Doublings(num, den) ==
    CHOOSE k \in 0..20 : num * 2^k <= den /\ den < num * 2^(k + 1)

\* For 0 < D < 1: 1 - D < -ln(D) < (1 - D)/D, and with k doublings
\* k * ln(2) <= -ln(D) < (k + 1) * ln(2), where 0.69314 < ln(2) < 0.69315.
\* So with a positive factor f6/6 the statistic -(f6/6) * ln(D) is surely
\* above, or surely below, the quantile c/100000 in these cases.
StatisticSurelyAbove(f6, num, den, c) ==
    \/ f6 * (den - num) * 100000 > 6 * den * c
    \/ f6 * Doublings(num, den) * 69314 > 6 * c

StatisticSurelyBelow(f6, num, den, c) ==
    \/ f6 * (den - num) * 100000 < 6 * num * c
    \/ f6 * (Doublings(num, den) + 1) * 69315 < 6 * c

RatingRow(n_judges, k) ==
    [j \in 1..n_judges |-> IF j <= k THEN 3 + (j % 2) ELSE 1 + (j % 2)]

\* The matrices of n_judges judges over up to MaxRatedItems items.
RatingMatrices(n_judges) ==
    UNION {[1..m -> {RatingRow(n_judges, k) : k \in 0..n_judges}]
              : m \in 0..MaxRatedItems}

\* The ratings are an argument of the call; the analyzer holds the complete
\* survey table.
ContentInit ==
    /\ data = CHOOSE d \in SurveyTables : \A i \in DOMAIN d : \A c \in Columns : d[i][c] # <<>>
    /\ self_results = <<>>
    /\ pc = "idle"
    /\ call = NoCall
    /\ ret = None
    /\ prev_ret = None

CallContentValidityIndex ==
    \E n_judges \in 1..MaxJudges :
        \E judges_ratings \in RatingMatrices(n_judges) :
            Invoke([op |-> "content_validity_index",
                    judges_ratings |-> judges_ratings,
                    n_judges |-> n_judges],
                   content_validity_index(judges_ratings, n_judges))

ContentNext ==
    \/ CallContentValidityIndex
    \/ Discard

ContentSpec == ContentInit /\ [][ContentNext]_vars

\* A call of content_validity_index has just returned.
ContentReturned == pc = "returned" /\ call.op = "content_validity_index"

\* The band of a mean: the number of the thresholds 0.60, 0.70 and 0.80
\* that it reaches.
ReferenceContentBand(mean) ==
    IF IsNaN(mean) THEN 0
    ELSE Cardinality({t \in {6, 7, 8} : 10 * mean.n >= t * mean.d})

ContentBand(label) ==
    CASE label = "Validez de contenido insuficiente - revisar ítems" -> 0
      [] label = "Validez de contenido aceptable" -> 1
      [] label = "Buena validez de contenido" -> 2
      [] label = "Excelente validez de contenido" -> 3

\* C24: content_validity_index gives every item the share of the judges
\* who rate it 3 or more, a value in [0, 1] that is 1 exactly when all
\* judges do; ivc_total is the mean of these values; the interpretation is
\* the band of that mean among >= 0.80, >= 0.70, >= 0.60 and below, a
\* boundary value belonging to the higher band.
C24_ContentValidityIndex ==
    (ContentReturned /\ ret # None) =>
        LET ratings == call.judges_ratings
            judges  == 1..call.n_judges
            share(item) ==
                Num(Cardinality({j \in judges : ratings[item][j] \in {3, 4}}),
                    call.n_judges)
            mean == RDiv(RSum([item \in DOMAIN ratings |-> share(item)]),
                         FromInt(Len(ratings)))
        IN  /\ DOMAIN ret.ivc_by_item = DOMAIN ratings
            /\ \A item \in DOMAIN ratings :
                  /\ ret.ivc_by_item[item] = share(item)
                  /\ InUnitInterval(ret.ivc_by_item[item])
                  /\ (ret.ivc_by_item[item] = FromInt(1))
                        <=> \A j \in judges : ratings[item][j] >= 3
            /\ ret.ivc_total.mean = mean
            /\ ContentBand(ret.interpretation) = ReferenceContentBand(mean)

\* ------------------------------------------------------------------------
\* Validity metrics: one caller calls one validity metric at a time
\* ------------------------------------------------------------------------

CallDiscriminantValidity ==
    \E dimension1_items \in MetricItemLists :
        \E dimension2_items \in MetricItemLists :
            Invoke([op |-> "discriminant_validity",
                    dimension1_items |-> dimension1_items,
                    dimension2_items |-> dimension2_items],
                   discriminant_validity(data, dimension1_items, dimension2_items))

\* The criterion variable may be any column, or a name that is none.
CallCriterionValidity ==
    \E predictor_items \in MetricItemLists :
        \E criterion_var \in Columns \cup {"P9"} :
            Invoke([op |-> "criterion_validity",
                    predictor_items |-> predictor_items,
                    criterion_var |-> criterion_var],
                   criterion_validity(data, predictor_items, criterion_var))

\* n_factors left to the Kaiser criterion (None), or given as 1 or 2;
\* random_state is the 42 of the source.
CallConstructValidityFactorial ==
    \E items \in MetricItemLists :
        \E n_factors \in {<<>>, <<1>>, <<2>>} :
            Invoke([op |-> "construct_validity_factorial",
                    items |-> items,
                    n_factors |-> n_factors],
                   construct_validity_factorial(data, items, n_factors, 42))

ValidityNext ==
    \/ CallDiscriminantValidity
    \/ CallCriterionValidity
    \/ CallConstructValidityFactorial
    \/ Discard

ValiditySpec == MetricInit /\ [][ValidityNext]_vars

\* A call of construct_validity_factorial has just returned.
FactorialReturned == pc = "returned" /\ call.op = "construct_validity_factorial"

\* A call of criterion_validity has just returned.
CriterionReturned == pc = "returned" /\ call.op = "criterion_validity"

\* A call of discriminant_validity has just returned.
DiscriminantReturned == pc = "returned" /\ call.op = "discriminant_validity"

DiscriminantRank(label) ==
    CASE label = "Excelente validez discriminante" -> 0
      [] label = "Buena validez discriminante" -> 1
      [] label = "Validez discriminante moderada" -> 2
      [] label = "Validez discriminante insuficiente (dimensiones muy relacionadas)" -> 3

\* The number of the thresholds 0.30, 0.50 and 0.70 that |r| reaches, for
\* r^2 = n / d; all three when r is not a number.
ReferenceDiscriminantRank(r) ==
    IF r.d = 0 THEN 3
    ELSE Cardinality({t \in {3, 5, 7} : 100 * r.n >= t * t * r.d})

\* The correlation h / 100.
HundredthsCorr(h) == [sgn |-> Sign(h), n |-> h * h, d |-> 10000]

\* C26: the label of discriminant_validity depends on |r| only: excellent
\* below 0.30, good below 0.50, moderate below 0.70, insufficient from 0.70
\* on; r and -r have the same label, no larger |r| has a better label, and
\* 0.30, 0.50 and 0.70 themselves belong to the worse band.
C26_DiscriminantLabelByMagnitude ==
    (DiscriminantReturned /\ ret # None) =>
        LET r     == ret.correlation_between_dimensions
            label == ret.interpretation
        IN  /\ DiscriminantRank(label) = ReferenceDiscriminantRank(r)
            /\ discriminant_interpretation([r EXCEPT !.sgn = -r.sgn]) = label
            /\ \A h \in -100..100 :
                  LET g == HundredthsCorr(h)
                  IN  /\ (r.d # 0 /\ g.n * r.d >= r.n * g.d) =>
                            DiscriminantRank(discriminant_interpretation(g))
                                >= DiscriminantRank(label)
                      /\ discriminant_interpretation(g)
                            = discriminant_interpretation(HundredthsCorr(-h))
            /\ \A s \in {-1, 1} :
                  /\ DiscriminantRank(discriminant_interpretation(HundredthsCorr(s * 30))) = 1
                  /\ DiscriminantRank(discriminant_interpretation(HundredthsCorr(s * 50))) = 2
                  /\ DiscriminantRank(discriminant_interpretation(HundredthsCorr(s * 70))) = 3

\* A call returned a correlation of exactly one half, in either direction.
C26_Witness ==
    /\ DiscriminantReturned
    /\ ret # None
    /\ 4 * ret.correlation_between_dimensions.n = ret.correlation_between_dimensions.d
    /\ ret.correlation_between_dimensions.d # 0
    /\ ret.interpretation = "Validez discriminante moderada"

\* The first rule that matches |r| = sqrt(n / d) and the two significance
\* levels, numbered 3 (excellent), 2 (good), 1 (acceptable), 0 (insufficient).
ReferenceCriterionRule(r, p_below_05, p_below_01) ==
    LET reaches(t) == r.d # 0 /\ 100 * r.n >= t * t * r.d
    IN  IF reaches(5) /\ p_below_01 THEN 3
        ELSE IF reaches(3) /\ p_below_05 THEN 2
        ELSE IF p_below_05 THEN 1
        ELSE 0

CriterionRule(label) ==
    CASE label = "Excelente validez de criterio" -> 3
      [] label = "Buena validez de criterio" -> 2
      [] label = "Validez de criterio aceptable" -> 1
      [] label = "Validez de criterio insuficiente (no significativa)" -> 0

\* C27: criterion_validity labels (|r|, p) by the first rule that matches:
\* |r| >= 0.50 and p < 0.01 excellent; |r| >= 0.30 and p < 0.05 good;
\* p < 0.05 acceptable; otherwise insufficient.  The flag 'significant' is
\* false exactly when the label is the insufficient one, and |r| >= 0.50
\* with 0.01 <= p < 0.05 is good, not excellent.
C27_CriterionInterpretation ==
    (CriterionReturned /\ ret # None) =>
        LET r   == ret.correlation_with_criterion
            p05 == PValueBelow(r, ret.n_observations, TCritSq05)
            p01 == PValueBelow(r, ret.n_observations, TCritSq01)
        IN  /\ ret.significant = p05
            /\ p01 => p05
            /\ CriterionRule(ret.interpretation) = ReferenceCriterionRule(r, p05, p01)
            /\ (~ret.significant) <=> CriterionRule(ret.interpretation) = 0
            /\ (r.d # 0 /\ 4 * r.n >= r.d /\ p05 /\ ~p01) =>
                  ret.interpretation = "Buena validez de criterio"
            /\ \A h \in -100..100 : \A below05, below01 \in BOOLEAN :
                  (below01 => below05) =>
                      CriterionRule(criterion_interpretation(HundredthsCorr(h), below05, below01))
                          = ReferenceCriterionRule(HundredthsCorr(h), below05, below01)

\* A call returned |r| >= 0.50 that is significant at 5% but not at 1%.
C27_Witness ==
    /\ CriterionReturned
    /\ ret # None
    /\ 4 * ret.correlation_with_criterion.n >= ret.correlation_with_criterion.d
    /\ ret.correlation_with_criterion.d # 0
    /\ ret.significant
    /\ ~PValueBelow(ret.correlation_with_criterion, ret.n_observations, TCritSq01)

\* C28: criterion_validity returns no result when the correlation of the
\* predictor sum score with the criterion is exactly +1 or -1, where
\* t = r * sqrt((n - 2) / (1 - r^2)) divides by zero; it returns no record
\* labelled excellent or significant from that division.  (Stated for more
\* than two rows; with two rows the quotient is 0 / 0.)
C28_PerfectCorrelationFails ==
    (CriterionReturned /\ ~MissingColumn(call.predictor_items)
       /\ call.criterion_var \in Columns) =>
        LET items == call.predictor_items
            rows  == {i \in DOMAIN data :
                         /\ \A j \in DOMAIN items : data[i][items[j]] # <<>>
                         /\ data[i][call.criterion_var] # <<>>}
            score == [i \in rows |-> Sum([j \in DOMAIN items |-> data[i][items[j]][1]])]
            crit  == [i \in rows |-> data[i][call.criterion_var][1]]
            r     == ReferenceCorr(score, crit)
        IN  (Cardinality(rows) > 2 /\ r.d # 0 /\ r.n = r.d) => ret = None

\* C29: cronbach_alpha returns no record whose alpha is undefined or
\* infinite: for two or more distinct items, when all complete rows have
\* the same total (zero variance of the total) or there is exactly one
\* complete row (no variance), the call returns no result.
C29_NoUndefinedAlpha ==
    (AlphaReturned /\ Len(call.items) >= 2) =>
        LET items == call.items
            rows  == {i \in DOMAIN data :
                         \A j \in DOMAIN items : data[i][items[j]] # <<>>}
            total == [i \in rows |-> Sum([j \in DOMAIN items |-> data[i][items[j]][1]])]
        IN  /\ ret # None => ret.alpha.d > 0
            /\ (/\ ~MissingColumn(items)
                /\ rows # {}
                /\ \A i, j \in rows : total[i] = total[j]) => ret = None

\* C30: in a result of construct_validity_factorial the field
\* 'eigenvalues' holds the eigenvalues of the correlation matrix when the
\* caller passed n_factors = None, and is None only when the caller gave
\* n_factors; n_factors is the number of extracted factors (with None, the
\* number of eigenvalues above 1), and the loading matrix has one row per
\* item and one column per factor.
C30_EigenvaluesKeptWhenAutomatic ==
    (FactorialReturned /\ ret # None) =>
        LET items == call.items
            rows  == {i \in DOMAIN data :
                         \A j \in DOMAIN items : data[i][items[j]] # <<>>}
        IN  /\ (ret.eigenvalues = None) <=> (call.n_factors # <<>>)
            /\ call.n_factors # <<>> => ret.n_factors = call.n_factors[1]
            /\ call.n_factors = <<>> =>
                  ret.n_factors
                      = EigenvaluesAboveOne(SSMatrix(data, rows, items), Len(items))
            /\ ret.factor_loadings.index = items
            /\ ret.factor_loadings.columns = ret.n_factors

====
